---- MODULE Spec2Model ----
(***************************************************************************)
(* A model of harald, a rule driven TCP/TLS forwarder.                     *)
(*                                                                         *)
(*   - Forwarder.Start / Forwarder.Stop and the accept loop (harald.go)    *)
(*   - Forwarder.handle, the per connection relay (harald.go)              *)
(*   - TLS.Config, the TLS configuration builder (config.go)               *)
(*                                                                         *)
(* Every goroutine is a process with a program counter; every access to    *)
(* the shared field f.listener is a step of its own, because the code      *)
(* does not synchronise them.                                              *)
(***************************************************************************)
EXTENDS Integers, Sequences, FiniteSets, TLC

\* ------------------------------------------------------------------ bounds
\* listeners that can be bound in one run (ids of net.Listener values)
MaxBinds == 2
\* connections a client opens in one run
MaxConns == 2
\* bytes each peer of a connection writes
MaxBytes == 2
\* PEM sections in a client CA bundle
MaxBlocks == 2
\* rules in the configuration
MaxRules == 2
\* signals delivered to the process
MaxSignals == 2
\* characters of a duration text
MaxText == 4

\* ------------------------------------------------------------ value spaces
\* the nil interface value of f.listener
NoListener == 0
ListenerIds == 1..MaxBinds
ConnIds == 1..MaxConns
\* the forwarder under test (the tests build one Forwarder literal)
FwdIds == {1}
Threads == {"t1", "t2"}
\* the keys of Config.Rules; a forwarder is identified by the name of its rule
RuleNames == 1..MaxRules
\* the goroutine that runs Harald
MainThread == "t1"

VARIABLES
    listener,    \* [FwdIds -> ListenerIds \cup {NoListener}], the field f.listener
    tlsOn,       \* [FwdIds -> BOOLEAN], f.tlsConf != nil
    lstate,      \* [ListenerIds -> {"unbound", "open", "closed"}], the socket
    lowner,      \* [ListenerIds -> FwdIds \cup {0}], who bound it
    closeCalls,  \* [ListenerIds -> Nat], calls of Close() on the listener
    call,        \* [Threads -> record], a caller inside Start() or Stop()
    loop,        \* [ListenerIds -> record], the accept loop its Start() launched
    panicked,    \* a goroutine dereferenced nil: the process is gone
    conn,        \* [ConnIds -> record], accepted connections and their handler
    tlsIn,       \* the *TLS value TLS.Config is called on
    tlsOut,      \* what TLS.Config returned
    cfg,         \* the Config value Harald is called with
    signals,     \* the signals the channel will still deliver, in order
    main,        \* the frame of Harald: its position, forwarders and loop variables
    fwd,         \* [RuleNames -> record], the fields NewForwarder sets
    dur          \* a Duration value and the JSON text decoded into it

\* the state of the entry point and of the configuration decoding
ctlVars == <<cfg, signals, main, fwd, dur>>

vars == <<listener, tlsOn, lstate, lowner, closeCalls, call, loop, panicked,
          conn, tlsIn, tlsOut, cfg, signals, main, fwd, dur>>

IdleCall == [op |-> "idle", f |-> 0, pc |-> "idle", l |-> NoListener,
             err |-> FALSE, ret |-> "none"]
NoLoop == [pc |-> "none", f |-> 0, cur |-> NoListener, logged |-> FALSE]

\* the listeners not bound yet
FreeListeners == {id \in ListenerIds : lstate[id] = "unbound"}
OpenListeners(f) == {id \in ListenerIds : lowner[id] = f /\ lstate[id] = "open"}
\* accept loops of forwarder f that have not returned
RunningLoops(f) == {id \in ListenerIds : loop[id].f = f /\ loop[id].pc \in {"read", "accept"}}
InProgress(f) == {t \in Threads : call[t].f = f /\ call[t].pc \notin {"idle", "ret"}}

\* ------------------------------------------------------- Forwarder.Start
\* a caller enters f.Start()
StartCall(t, f) ==
    /\ ~panicked
    /\ call[t].pc \in {"idle", "ret"}
    /\ call' = [call EXCEPT ![t] = [IdleCall EXCEPT !.op = "Start", !.f = f, !.pc = "check"]]
    /\ UNCHANGED <<listener, tlsOn, lstate, lowner, closeCalls, loop, panicked, conn, tlsIn, tlsOut, ctlVars>>

\* mutant: Start() without the "already open" test
StartCheckNoTest(t) ==
    /\ ~panicked
    /\ call[t].op = "Start" /\ call[t].pc = "check"
    /\ call' = [call EXCEPT ![t].pc = "listen"]
    /\ UNCHANGED <<listener, tlsOn, lstate, lowner, closeCalls, loop, panicked, conn, tlsIn, tlsOut, ctlVars>>

\* if f.listener != nil { return nil }
StartCheck(t) ==
    /\ ~panicked
    /\ call[t].op = "Start" /\ call[t].pc = "check"
    /\ IF listener[call[t].f] # NoListener
         THEN call' = [call EXCEPT ![t].pc = "ret", ![t].ret = "already"]
         ELSE call' = [call EXCEPT ![t].pc = "listen"]
    /\ UNCHANGED <<listener, tlsOn, lstate, lowner, closeCalls, loop, panicked, conn, tlsIn, tlsOut, ctlVars>>

\* net.Listen(network, address): binds a new listener or fails
StartListen(t) ==
    /\ ~panicked
    /\ call[t].op = "Start" /\ call[t].pc = "listen"
    /\ \/ \E id \in FreeListeners :
            /\ \A other \in FreeListeners : id <= other
            /\ lstate' = [lstate EXCEPT ![id] = "open"]
            /\ lowner' = [lowner EXCEPT ![id] = call[t].f]
            /\ call' = [call EXCEPT ![t].pc = "store", ![t].l = id, ![t].err = FALSE]
       \/ /\ call' = [call EXCEPT ![t].pc = "store", ![t].l = NoListener, ![t].err = TRUE]
          /\ UNCHANGED <<lstate, lowner>>
    /\ UNCHANGED <<listener, tlsOn, closeCalls, loop, panicked, conn, tlsIn, tlsOut, ctlVars>>

\* mutant: a failed bind leaves a handle behind
StartStoreSticky(t) ==
    /\ ~panicked
    /\ call[t].op = "Start" /\ call[t].pc = "store"
    /\ listener' = [listener EXCEPT ![call[t].f] = IF call[t].err THEN MaxBinds ELSE call[t].l]
    /\ IF call[t].err
         THEN call' = [call EXCEPT ![t].pc = "ret", ![t].ret = "binderr"]
         ELSE call' = [call EXCEPT ![t].pc = "go"]
    /\ UNCHANGED <<tlsOn, lstate, lowner, closeCalls, loop, panicked, conn, tlsIn, tlsOut, ctlVars>>

\* mutant: a bind error is not returned
StartStoreSwallows(t) ==
    /\ ~panicked
    /\ call[t].op = "Start" /\ call[t].pc = "store"
    /\ listener' = [listener EXCEPT ![call[t].f] = call[t].l]
    /\ IF call[t].err
         THEN call' = [call EXCEPT ![t].pc = "ret", ![t].ret = "bound", ![t].err = FALSE]
         ELSE call' = [call EXCEPT ![t].pc = "go"]
    /\ UNCHANGED <<tlsOn, lstate, lowner, closeCalls, loop, panicked, conn, tlsIn, tlsOut, ctlVars>>

\* f.listener, err = ...; if err != nil { return err }
StartStore(t) ==
    /\ ~panicked
    /\ call[t].op = "Start" /\ call[t].pc = "store"
    /\ listener' = [listener EXCEPT ![call[t].f] = call[t].l]
    /\ IF call[t].err
         THEN call' = [call EXCEPT ![t].pc = "ret", ![t].ret = "binderr"]
         ELSE call' = [call EXCEPT ![t].pc = "go"]
    /\ UNCHANGED <<tlsOn, lstate, lowner, closeCalls, loop, panicked, conn, tlsIn, tlsOut, ctlVars>>

\* go func() { for { ... } }(); return nil
StartGo(t) ==
    /\ ~panicked
    /\ call[t].op = "Start" /\ call[t].pc = "go"
    /\ loop' = [loop EXCEPT ![call[t].l] = [NoLoop EXCEPT !.pc = "read", !.f = call[t].f]]
    /\ call' = [call EXCEPT ![t].pc = "ret", ![t].ret = "bound"]
    /\ UNCHANGED <<listener, tlsOn, lstate, lowner, closeCalls, panicked, conn, tlsIn, tlsOut, ctlVars>>

\* -------------------------------------------------------- Forwarder.Stop
\* a caller enters f.Stop()
StopCall(t, f) ==
    /\ ~panicked
    /\ call[t].pc \in {"idle", "ret"}
    /\ call' = [call EXCEPT ![t] = [IdleCall EXCEPT !.op = "Stop", !.f = f, !.pc = "test"]]
    /\ UNCHANGED <<listener, tlsOn, lstate, lowner, closeCalls, loop, panicked, conn, tlsIn, tlsOut, ctlVars>>

\* mutant: Stop() without the "already closed" test
StopTestNoTest(t) ==
    /\ ~panicked
    /\ call[t].op = "Stop" /\ call[t].pc = "test"
    /\ call' = [call EXCEPT ![t].pc = "capture"]
    /\ UNCHANGED <<listener, tlsOn, lstate, lowner, closeCalls, loop, panicked, conn, tlsIn, tlsOut, ctlVars>>

\* if f.listener == nil { return }
StopTest(t) ==
    /\ ~panicked
    /\ call[t].op = "Stop" /\ call[t].pc = "test"
    /\ IF listener[call[t].f] = NoListener
         THEN call' = [call EXCEPT ![t].pc = "ret", ![t].ret = "already"]
         ELSE call' = [call EXCEPT ![t].pc = "capture"]
    /\ UNCHANGED <<listener, tlsOn, lstate, lowner, closeCalls, loop, panicked, conn, tlsIn, tlsOut, ctlVars>>

\* l := f.listener
StopCapture(t) ==
    /\ ~panicked
    /\ call[t].op = "Stop" /\ call[t].pc = "capture"
    /\ call' = [call EXCEPT ![t].pc = "clear", ![t].l = listener[call[t].f]]
    /\ UNCHANGED <<listener, tlsOn, lstate, lowner, closeCalls, loop, panicked, conn, tlsIn, tlsOut, ctlVars>>

\* mutant: Stop() forgets to clear the handle
StopClearKeepsHandle(t) ==
    /\ ~panicked
    /\ call[t].op = "Stop" /\ call[t].pc = "clear"
    /\ IF call[t].l = NoListener
         THEN call' = [call EXCEPT ![t].pc = "ret", ![t].ret = "double"]
         ELSE call' = [call EXCEPT ![t].pc = "close"]
    /\ UNCHANGED <<listener, tlsOn, lstate, lowner, closeCalls, loop, panicked, conn, tlsIn, tlsOut, ctlVars>>

\* f.listener = nil; if l == nil { return }
StopClear(t) ==
    /\ ~panicked
    /\ call[t].op = "Stop" /\ call[t].pc = "clear"
    /\ listener' = [listener EXCEPT ![call[t].f] = NoListener]
    /\ IF call[t].l = NoListener
         THEN call' = [call EXCEPT ![t].pc = "ret", ![t].ret = "double"]
         ELSE call' = [call EXCEPT ![t].pc = "close"]
    /\ UNCHANGED <<tlsOn, lstate, lowner, closeCalls, loop, panicked, conn, tlsIn, tlsOut, ctlVars>>

\* mutant: closing the listener also closes the connections it accepted
StopCloseSevers(t) ==
    /\ ~panicked
    /\ call[t].op = "Stop" /\ call[t].pc = "close"
    /\ call[t].l # NoListener
    /\ lstate' = [lstate EXCEPT ![call[t].l] = "closed"]
    /\ closeCalls' = [closeCalls EXCEPT ![call[t].l] = @ + 1]
    /\ call' = [call EXCEPT ![t].pc = "ret", ![t].ret = "closed"]
    /\ conn' = [c \in ConnIds |->
                  IF conn[c].lid = call[t].l
                    THEN [conn[c] EXCEPT !.src = "closed",
                                         !.tgt = IF @ = "open" THEN "closed" ELSE @]
                    ELSE conn[c]]
    /\ UNCHANGED <<listener, tlsOn, lowner, loop, panicked, tlsIn, tlsOut, ctlVars>>

\* mutant: a Close() that reports an error puts the listener back in the handle
StopCloseRestores(t) ==
    /\ ~panicked
    /\ call[t].op = "Stop" /\ call[t].pc = "close"
    /\ call[t].l # NoListener
    /\ lstate' = [lstate EXCEPT ![call[t].l] = "closed"]
    /\ closeCalls' = [closeCalls EXCEPT ![call[t].l] = @ + 1]
    /\ \E failed \in BOOLEAN :
          /\ lstate[call[t].l] = "closed" => failed
          /\ call' = [call EXCEPT ![t].pc = "ret", ![t].err = failed,
                                  ![t].ret = IF failed THEN "closeerr" ELSE "closed"]
          /\ listener' = IF failed THEN [listener EXCEPT ![call[t].f] = call[t].l]
                                   ELSE listener
    /\ UNCHANGED <<tlsOn, lowner, loop, panicked, conn, tlsIn, tlsOut, ctlVars>>

\* err := l.Close(): the socket is released whatever Close reports; closing a
\* closed listener reports an error
StopClose(t) ==
    /\ ~panicked
    /\ call[t].op = "Stop" /\ call[t].pc = "close"
    /\ IF call[t].l = NoListener
         THEN \* a method call on a nil interface value
              /\ panicked' = TRUE
              /\ UNCHANGED <<lstate, closeCalls, call>>
         ELSE /\ lstate' = [lstate EXCEPT ![call[t].l] = "closed"]
              /\ closeCalls' = [closeCalls EXCEPT ![call[t].l] = @ + 1]
              /\ \E failed \in BOOLEAN :
                    /\ lstate[call[t].l] = "closed" => failed
                    /\ call' = [call EXCEPT ![t].pc = "ret", ![t].err = failed,
                                            ![t].ret = IF failed THEN "closeerr" ELSE "closed"]
              /\ UNCHANGED panicked
    /\ UNCHANGED <<listener, tlsOn, lowner, loop, conn, tlsIn, tlsOut, ctlVars>>

\* ------------------------------------------------------------ accept loop
\* c, err := f.listener.Accept(): the field is read anew in every round
LoopRead(id) ==
    /\ ~panicked
    /\ loop[id].pc = "read"
    /\ IF listener[loop[id].f] = NoListener
         THEN \* Accept() on a nil interface value
              /\ panicked' = TRUE
              /\ UNCHANGED loop
         ELSE /\ loop' = [loop EXCEPT ![id].pc = "accept", ![id].cur = listener[loop[id].f]]
              /\ UNCHANGED panicked
    /\ UNCHANGED <<listener, tlsOn, lstate, lowner, closeCalls, call, conn, tlsIn, tlsOut, ctlVars>>

\* errors.Is(err, net.ErrClosed): return
LoopAcceptClosed(id) ==
    /\ ~panicked
    /\ loop[id].pc = "accept"
    /\ lstate[loop[id].cur] = "closed"
    /\ loop' = [loop EXCEPT ![id].pc = "exited"]
    /\ UNCHANGED <<listener, tlsOn, lstate, lowner, closeCalls, call, panicked, conn, tlsIn, tlsOut, ctlVars>>

\* mutant: an accept error ends the loop
LoopAcceptErrReturns(id) ==
    /\ ~panicked
    /\ loop[id].pc = "accept"
    /\ lstate[loop[id].cur] = "open"
    /\ loop' = [loop EXCEPT ![id].pc = "exited", ![id].logged = TRUE]
    /\ UNCHANGED <<listener, tlsOn, lstate, lowner, closeCalls, call, panicked, conn, tlsIn, tlsOut, ctlVars>>

\* any other accept error: f.log.Error("unable to accept connection"); continue
LoopAcceptErr(id) ==
    /\ ~panicked
    /\ loop[id].pc = "accept"
    /\ lstate[loop[id].cur] = "open"
    /\ loop' = [loop EXCEPT ![id].pc = "read", ![id].logged = TRUE]
    /\ UNCHANGED <<listener, tlsOn, lstate, lowner, closeCalls, call, panicked, conn, tlsIn, tlsOut, ctlVars>>

\* ----------------------------------------------------- connection handler
\* the relay never looks at a byte, so each peer writes a fixed payload of
\* distinct bytes: the client 1, 2, ..., the upstream 6, 7, ...
ClientByte(k) == k
UpstreamByte(k) == k + 5
\* the record layer of the TLS connection: what is on the wire differs from
\* the application bytes
Enc(s) == [i \in 1..Len(s) |-> s[i] + 10]
Dec(s) == [i \in 1..Len(s) |-> s[i] - 10]

Dirs == {"s2t", "t2s"}
Other(d) == IF d = "s2t" THEN "t2s" ELSE "s2t"

NoConn == [f |-> 0, lid |-> NoListener, afterErr |-> FALSE, hpc |-> "none",
           src |-> "none", srcCloses |-> 0,
           tgt |-> "none", tgtCloses |-> 0, dials |-> 0,
           wrapped |-> FALSE, hs |-> FALSE, cancelled |-> "no",
           cp |-> [d \in Dirs |-> "none"], buf |-> [d \in Dirs |-> <<>>],
           inQ |-> <<>>, inEOF |-> FALSE, upQ |-> <<>>, upEOF |-> FALSE,
           cw |-> <<>>, uw |-> <<>>, toUp |-> <<>>, toCl |-> <<>>,
           afterStop |-> [d \in Dirs |-> FALSE]]

FreeConns == {c \in ConnIds : conn[c].hpc = "none"}

\* mutant: the loop runs the handler itself, f.handle(c) without go, and is
\* back at Accept() only when that handler has returned
LoopAcceptConnInline(id) ==
    /\ ~panicked
    /\ loop[id].pc = "accept"
    /\ lstate[loop[id].cur] = "open"
    /\ \A h \in ConnIds : conn[h].hpc \in {"none", "done"}
    /\ \E c \in FreeConns :
          /\ \A other \in FreeConns : c <= other
          /\ conn' = [conn EXCEPT ![c] = [NoConn EXCEPT !.f = loop[id].f, !.lid = loop[id].cur,
                                                       !.afterErr = loop[id].logged,
                                                       !.hpc = "dial", !.src = "open"]]
    /\ loop' = [loop EXCEPT ![id].pc = "read"]
    /\ UNCHANGED <<listener, tlsOn, lstate, lowner, closeCalls, call, panicked, tlsIn, tlsOut, ctlVars>>

\* go f.handle(c): Accept() returned a connection
LoopAcceptConn(id) ==
    /\ ~panicked
    /\ loop[id].pc = "accept"
    /\ lstate[loop[id].cur] = "open"
    /\ \E c \in FreeConns :
          /\ \A other \in FreeConns : c <= other
          /\ conn' = [conn EXCEPT ![c] = [NoConn EXCEPT !.f = loop[id].f, !.lid = loop[id].cur,
                                                       !.afterErr = loop[id].logged,
                                                       !.hpc = "dial", !.src = "open"]]
    /\ loop' = [loop EXCEPT ![id].pc = "read"]
    /\ UNCHANGED <<listener, tlsOn, lstate, lowner, closeCalls, call, panicked, tlsIn, tlsOut, ctlVars>>

\* mutant: the TLS layer is put on the inbound socket before the dial
HandleDialWrapFirst(c) ==
    /\ ~panicked
    /\ conn[c].hpc = "dial"
    /\ \E ok \in BOOLEAN :
          conn' = [conn EXCEPT ![c].dials = @ + 1,
                               ![c].wrapped = tlsOn[conn[c].f],
                               ![c].tgt = IF ok THEN "open" ELSE "none",
                               ![c].hpc = IF ok THEN "wrap" ELSE "closeS"]
    /\ UNCHANGED <<listener, tlsOn, lstate, lowner, closeCalls, call, loop, panicked, tlsIn, tlsOut, ctlVars>>

\* mutant: a failed dial is tried once more
HandleDialRetries(c) ==
    /\ ~panicked
    /\ conn[c].hpc = "dial"
    /\ \E ok \in BOOLEAN :
          conn' = [conn EXCEPT ![c].dials = @ + 1,
                               ![c].tgt = IF ok THEN "open" ELSE "none",
                               ![c].hpc = IF ok THEN "wrap"
                                          ELSE IF conn[c].dials = 0 THEN "dial" ELSE "closeS"]
    /\ UNCHANGED <<listener, tlsOn, lstate, lowner, closeCalls, call, loop, panicked, tlsIn, tlsOut, ctlVars>>

\* mutant: a failed dial ends the process
HandleDialFatal(c) ==
    /\ ~panicked
    /\ conn[c].hpc = "dial"
    /\ \E ok \in BOOLEAN :
          /\ conn' = [conn EXCEPT ![c].dials = @ + 1,
                                  ![c].tgt = IF ok THEN "open" ELSE "none",
                                  ![c].hpc = IF ok THEN "wrap" ELSE "closeS"]
          /\ panicked' = ~ok
    /\ UNCHANGED <<listener, tlsOn, lstate, lowner, closeCalls, call, loop, tlsIn, tlsOut, ctlVars>>

\* defer source.Close(); target, err := net.DialTimeout(...); if err != nil { return }
HandleDial(c) ==
    /\ ~panicked
    /\ conn[c].hpc = "dial"
    /\ \E ok \in BOOLEAN :
          conn' = [conn EXCEPT ![c].dials = @ + 1,
                               ![c].tgt = IF ok THEN "open" ELSE "none",
                               ![c].hpc = IF ok THEN "wrap" ELSE "closeS"]
    /\ UNCHANGED <<listener, tlsOn, lstate, lowner, closeCalls, call, loop, panicked, tlsIn, tlsOut, ctlVars>>

\* mutant: the inbound socket is never wrapped
HandleWrapNoTLS(c) ==
    /\ ~panicked
    /\ conn[c].hpc = "wrap"
    /\ conn' = [conn EXCEPT ![c].cp = [d \in Dirs |-> "run"], ![c].hpc = "wait"]
    /\ UNCHANGED <<listener, tlsOn, lstate, lowner, closeCalls, call, loop, panicked, tlsIn, tlsOut, ctlVars>>

\* defer target.Close(); if f.tlsConf != nil { source = tls.Server(source, ...) };
\* ctx, cancel := ...; go copy source->target; go copy target->source
HandleWrap(c) ==
    /\ ~panicked
    /\ conn[c].hpc = "wrap"
    /\ conn' = [conn EXCEPT ![c].wrapped = tlsOn[conn[c].f],
                            ![c].cp = [d \in Dirs |-> "run"],
                            ![c].hpc = "wait"]
    /\ UNCHANGED <<listener, tlsOn, lstate, lowner, closeCalls, call, loop, panicked, tlsIn, tlsOut, ctlVars>>

\* what Read on the source of direction d has to offer
SrcState(c, d) == IF d = "s2t" THEN conn[c].src ELSE conn[c].tgt
DstState(c, d) == IF d = "s2t" THEN conn[c].tgt ELSE conn[c].src
SrcQueue(c, d) == IF d = "s2t" THEN conn[c].inQ ELSE conn[c].upQ
SrcEOF(c, d) == IF d = "s2t" THEN conn[c].inEOF ELSE conn[c].upEOF
\* Read on the inbound socket goes through the TLS layer once it is wrapped
ReadFrom(c, d, wire) == IF d = "s2t" /\ conn[c].wrapped THEN Dec(wire) ELSE wire
\* mutant: the TLS layer is put on the upstream socket
WriteToWrapsTarget(c, d, data) == IF d = "s2t" /\ conn[c].wrapped THEN Enc(data) ELSE data
\* Write on the inbound socket goes through the TLS layer once it is wrapped
WriteTo(c, d, data) == IF d = "t2s" /\ conn[c].wrapped THEN Enc(data) ELSE data
\* a client of a TLS forwarder speaks TLS
ClientSends(c, data) == IF tlsOn[conn[c].f] THEN Enc(data) ELSE data
ClientSees(c, wire) == IF tlsOn[conn[c].f] THEN Dec(wire) ELSE wire
\* the first Read or Write on the wrapped socket runs the handshake
Handshakes(c) == conn[c].hs \/ conn[c].wrapped

\* the copy goroutine returns: defer cancel(); the context keeps the first
\* cancellation, here with how that copy ended
Stopped(c, d, how) ==
    [conn EXCEPT ![c].cp[d] = how, ![c].buf[d] = <<>>,
                 ![c].cancelled = IF @ = "no" THEN how ELSE @]

\* io.Copy(dst, src), the Read half of a round
CopyRead(c, d) ==
    /\ ~panicked
    /\ conn[c].cp[d] = "run"
    /\ conn[c].buf[d] = <<>>
    /\ \/ /\ SrcState(c, d) = "closed"
          /\ conn' = Stopped(c, d, "err")
       \/ /\ SrcState(c, d) = "open"
          /\ SrcQueue(c, d) # <<>>
          /\ \E n \in 1..Len(SrcQueue(c, d)) :
                LET wire == SubSeq(SrcQueue(c, d), 1, n)
                    rest == SubSeq(SrcQueue(c, d), n + 1, Len(SrcQueue(c, d)))
                IN  conn' = [conn EXCEPT ![c].buf[d] = ReadFrom(c, d, wire),
                                         ![c].inQ = IF d = "s2t" THEN rest ELSE @,
                                         ![c].upQ = IF d = "t2s" THEN rest ELSE @,
                                         ![c].hs = IF d = "s2t" THEN Handshakes(c) ELSE @]
       \/ /\ SrcState(c, d) = "open"
          /\ SrcQueue(c, d) = <<>>
          /\ SrcEOF(c, d)
          /\ conn' = Stopped(c, d, "eof")
       \/ \* the peer reset the connection
          /\ SrcState(c, d) = "open"
          /\ conn' = Stopped(c, d, "err")
    /\ UNCHANGED <<listener, tlsOn, lstate, lowner, closeCalls, call, loop, panicked, tlsIn, tlsOut, ctlVars>>

\* Stop() has closed the listener the connection came in by, and has returned
StoppedSince(c) ==
    /\ lstate[conn[c].lid] = "closed"
    /\ listener[conn[c].f] = NoListener
    /\ InProgress(conn[c].f) = {}

\* mutant: the Write half sends the buffer twice
CopyWriteTwice(c, d) ==
    /\ ~panicked
    /\ conn[c].cp[d] = "run"
    /\ conn[c].buf[d] # <<>>
    /\ \/ /\ DstState(c, d) = "closed"
          /\ conn' = Stopped(c, d, "err")
       \/ /\ DstState(c, d) = "open"
          /\ LET sent == WriteTo(c, d, conn[c].buf[d]) \o WriteTo(c, d, conn[c].buf[d])
             IN  conn' = [conn EXCEPT
                    ![c].buf[d] = <<>>,
                    ![c].toUp = IF d = "s2t" THEN @ \o sent ELSE @,
                    ![c].toCl = IF d = "t2s" THEN @ \o ClientSees(c, sent) ELSE @,
                    ![c].hs = IF d = "t2s" THEN Handshakes(c) ELSE @,
                    ![c].afterStop[d] = @ \/ StoppedSince(c)]
    /\ UNCHANGED <<listener, tlsOn, lstate, lowner, closeCalls, call, loop, panicked, tlsIn, tlsOut, ctlVars>>

\* io.Copy(dst, src), the Write half of a round
CopyWrite(c, d) ==
    /\ ~panicked
    /\ conn[c].cp[d] = "run"
    /\ conn[c].buf[d] # <<>>
    /\ \/ /\ DstState(c, d) = "closed"
          /\ conn' = Stopped(c, d, "err")
       \/ /\ DstState(c, d) = "open"
          /\ conn' = [conn EXCEPT
                ![c].buf[d] = <<>>,
                ![c].toUp = IF d = "s2t" THEN @ \o WriteTo(c, d, conn[c].buf[d]) ELSE @,
                ![c].toCl = IF d = "t2s" THEN @ \o ClientSees(c, WriteTo(c, d, conn[c].buf[d])) ELSE @,
                ![c].hs = IF d = "t2s" THEN Handshakes(c) ELSE @,
                ![c].afterStop[d] = @ \/ StoppedSince(c)]
       \/ \* the peer reset the connection
          /\ DstState(c, d) = "open"
          /\ conn' = Stopped(c, d, "err")
    /\ UNCHANGED <<listener, tlsOn, lstate, lowner, closeCalls, call, loop, panicked, tlsIn, tlsOut, ctlVars>>

\* mutant: the handler does not wait for the cancellation
HandleCloseTNoWait(c) ==
    /\ ~panicked
    /\ conn[c].hpc = "wait"
    /\ conn' = [conn EXCEPT ![c].tgt = "closed", ![c].tgtCloses = @ + 1, ![c].hpc = "closeS"]
    /\ UNCHANGED <<listener, tlsOn, lstate, lowner, closeCalls, call, loop, panicked, tlsIn, tlsOut, ctlVars>>

\* mutant: the handler returns without closing the upstream socket
HandleCloseTLeavesOpen(c) ==
    /\ ~panicked
    /\ conn[c].hpc = "wait"
    /\ conn[c].cancelled # "no"
    /\ conn' = [conn EXCEPT ![c].hpc = "closeS"]
    /\ UNCHANGED <<listener, tlsOn, lstate, lowner, closeCalls, call, loop, panicked, tlsIn, tlsOut, ctlVars>>

\* <-ctx.Done(); return: the deferred cancel() and target.Close() run
HandleCloseT(c) ==
    /\ ~panicked
    /\ conn[c].hpc = "wait"
    /\ conn[c].cancelled # "no"
    /\ conn' = [conn EXCEPT ![c].tgt = "closed", ![c].tgtCloses = @ + 1, ![c].hpc = "closeS"]
    /\ UNCHANGED <<listener, tlsOn, lstate, lowner, closeCalls, call, loop, panicked, tlsIn, tlsOut, ctlVars>>

\* mutant: the deferred close of the inbound socket is lost on the dial error path
HandleCloseSLeak(c) ==
    /\ ~panicked
    /\ conn[c].hpc = "closeS"
    /\ IF conn[c].tgt = "none"
         THEN conn' = [conn EXCEPT ![c].hpc = "done"]
         ELSE conn' = [conn EXCEPT ![c].src = "closed", ![c].srcCloses = @ + 1, ![c].hpc = "done"]
    /\ UNCHANGED <<listener, tlsOn, lstate, lowner, closeCalls, call, loop, panicked, tlsIn, tlsOut, ctlVars>>

\* the deferred source.Close() runs, the handler has returned
HandleCloseS(c) ==
    /\ ~panicked
    /\ conn[c].hpc = "closeS"
    /\ conn' = [conn EXCEPT ![c].src = "closed", ![c].srcCloses = @ + 1, ![c].hpc = "done"]
    /\ UNCHANGED <<listener, tlsOn, lstate, lowner, closeCalls, call, loop, panicked, tlsIn, tlsOut, ctlVars>>

\* ------------------------------------------------------------ the peers
\* the client writes the next byte on its connection
ClientWrite(c) ==
    /\ ~panicked
    /\ conn[c].src = "open"
    /\ ~conn[c].inEOF
    /\ Len(conn[c].cw) < MaxBytes
    /\ LET b == ClientByte(Len(conn[c].cw) + 1)
       IN  conn' = [conn EXCEPT ![c].cw = Append(@, b),
                                ![c].inQ = @ \o ClientSends(c, <<b>>)]
    /\ UNCHANGED <<listener, tlsOn, lstate, lowner, closeCalls, call, loop, panicked, tlsIn, tlsOut, ctlVars>>

\* the client closes its side
ClientClose(c) ==
    /\ ~panicked
    /\ conn[c].src = "open"
    /\ ~conn[c].inEOF
    /\ conn' = [conn EXCEPT ![c].inEOF = TRUE]
    /\ UNCHANGED <<listener, tlsOn, lstate, lowner, closeCalls, call, loop, panicked, tlsIn, tlsOut, ctlVars>>

\* the upstream writes the next byte on the dialled connection
UpstreamWrite(c) ==
    /\ ~panicked
    /\ conn[c].tgt = "open"
    /\ ~conn[c].upEOF
    /\ Len(conn[c].uw) < MaxBytes
    /\ LET b == UpstreamByte(Len(conn[c].uw) + 1)
       IN  conn' = [conn EXCEPT ![c].uw = Append(@, b), ![c].upQ = Append(@, b)]
    /\ UNCHANGED <<listener, tlsOn, lstate, lowner, closeCalls, call, loop, panicked, tlsIn, tlsOut, ctlVars>>

\* the upstream closes its side
UpstreamClose(c) ==
    /\ ~panicked
    /\ conn[c].tgt = "open"
    /\ ~conn[c].upEOF
    /\ conn' = [conn EXCEPT ![c].upEOF = TRUE]
    /\ UNCHANGED <<listener, tlsOn, lstate, lowner, closeCalls, call, loop, panicked, tlsIn, tlsOut, ctlVars>>

\* ------------------------------------------------------------ TLS.Config
\* the sections a client CA bundle is made of: two parsable certificates, a
\* CERTIFICATE block that is no certificate, a block of another type, and
\* bytes that hold no PEM block
Sections == {"certA", "certB", "badcert", "key", "junk"}
IsCertBlock(b) == b \in {"certA", "certB", "badcert"}
\* tls.ClientAuthType, by value
ClientAuthTypes == <<"NoClientCert", "RequestClientCert", "RequireAnyClientCert",
                     "VerifyClientCertIfGiven", "RequireAndVerifyClientCert">>
AuthName(a) == ClientAuthTypes[a + 1]

RECURSIVE SkipJunk(_)
SkipJunk(d) == IF d # <<>> /\ Head(d) = "junk" THEN SkipJunk(Tail(d)) ELSE d

\* pem.Decode: the next PEM block and the rest, or no block and all of the input
PemDecode(d) ==
    LET from == SkipJunk(d)
    IN  IF from = <<>>
          THEN [block |-> "nil", rest |-> d]
          ELSE [block |-> Head(from), rest |-> Tail(from)]

\* mutant: parsed certificates are counted but never added to the pool
RECURSIVE ParseClientCAsNoAdd(_, _, _)
ParseClientCAsNoAdd(d, certs, pool) ==
    IF Len(d) = 0
      THEN [err |-> "none", certs |-> certs, pool |-> pool]
      ELSE LET r == PemDecode(d)
           IN  IF r.block = "nil"
                 THEN [err |-> "unparsable section", certs |-> certs, pool |-> pool]
                 ELSE IF ~IsCertBlock(r.block)
                   THEN [err |-> "unexpected block", certs |-> certs, pool |-> pool]
                   ELSE IF r.block = "badcert"
                     THEN [err |-> "parse certificate", certs |-> certs, pool |-> pool]
                     ELSE ParseClientCAsNoAdd(r.rest, certs + 1, pool)

\* mutant: a block of another type is passed over
RECURSIVE ParseClientCAsSkipsOthers(_, _, _)
ParseClientCAsSkipsOthers(d, certs, pool) ==
    IF Len(d) = 0
      THEN [err |-> "none", certs |-> certs, pool |-> pool]
      ELSE LET r == PemDecode(d)
           IN  IF r.block = "nil"
                 THEN [err |-> "unparsable section", certs |-> certs, pool |-> pool]
                 ELSE IF ~IsCertBlock(r.block)
                   THEN ParseClientCAsSkipsOthers(r.rest, certs, pool)
                   ELSE IF r.block = "badcert"
                     THEN [err |-> "parse certificate", certs |-> certs, pool |-> pool]
                     ELSE ParseClientCAsSkipsOthers(r.rest, certs + 1, pool \cup {r.block})

\* for len(d) > 0 { block, d = pem.Decode(d); ... }
RECURSIVE ParseClientCAs(_, _, _)
ParseClientCAs(d, certs, pool) ==
    IF Len(d) = 0
      THEN [err |-> "none", certs |-> certs, pool |-> pool]
      ELSE LET r == PemDecode(d)
           IN  IF r.block = "nil"
                 THEN [err |-> "unparsable section", certs |-> certs, pool |-> pool]
                 ELSE IF ~IsCertBlock(r.block)
                   THEN [err |-> "unexpected block", certs |-> certs, pool |-> pool]
                   ELSE IF r.block = "badcert"
                     THEN [err |-> "parse certificate", certs |-> certs, pool |-> pool]
                     ELSE ParseClientCAs(r.rest, certs + 1, pool \cup {r.block})

NoConf == [isNil |-> TRUE, NextProtos |-> <<>>, ClientCAs |-> {}, ClientAuth |-> 0]
Failed(why) == [conf |-> NoConf, err |-> why]

\* mutant: a client-auth level without client CAs is let through
TLSConfigNoAuthCheck(t) ==
    IF t.isNil
      THEN [conf |-> NoConf, err |-> "none"]
      ELSE IF ~t.keyPairOK
        THEN Failed("parse certificate and private key")
        ELSE LET cas == ParseClientCAs(t.ClientCAs, 0, {})
             IN  IF cas.err # "none"
                   THEN Failed(cas.err)
                   ELSE [conf |-> [isNil |-> FALSE,
                                   NextProtos |-> t.ApplicationProtocols,
                                   ClientCAs |-> cas.pool,
                                   ClientAuth |-> t.ClientAuth],
                         err |-> "none"]

\* mutant: the key pair is parsed before the client-auth level is looked at
TLSConfigKeyPairFirst(t) ==
    IF t.isNil
      THEN [conf |-> NoConf, err |-> "none"]
      ELSE IF ~t.keyPairOK
        THEN Failed("parse certificate and private key")
        ELSE IF t.ClientCAs = <<>> /\ t.ClientAuth > 0
          THEN Failed("client authentication but no client CAs")
          ELSE LET cas == ParseClientCAs(t.ClientCAs, 0, {})
               IN  IF cas.err # "none"
                     THEN Failed(cas.err)
                     ELSE IF t.ClientCAs # <<>> /\ cas.certs = 0
                       THEN Failed("unable to parse provided client CAs")
                       ELSE [conf |-> [isNil |-> FALSE,
                                       NextProtos |-> t.ApplicationProtocols,
                                       ClientCAs |-> cas.pool,
                                       ClientAuth |-> t.ClientAuth],
                             err |-> "none"]

\* mutant: a rule without a tls block gets a configuration all the same
TLSConfigNeverNil(t) ==
    IF t.isNil
      THEN [conf |-> [isNil |-> FALSE, NextProtos |-> <<>>, ClientCAs |-> {},
                      ClientAuth |-> 0],
            err |-> "none"]
      ELSE IF t.ClientCAs = <<>> /\ t.ClientAuth > 0
        THEN Failed("client authentication but no client CAs")
        ELSE IF ~t.keyPairOK
          THEN Failed("parse certificate and private key")
          ELSE LET cas == ParseClientCAs(t.ClientCAs, 0, {})
               IN  IF cas.err # "none"
                     THEN Failed(cas.err)
                     ELSE IF t.ClientCAs # <<>> /\ cas.certs = 0
                       THEN Failed("unable to parse provided client CAs")
                       ELSE [conf |-> [isNil |-> FALSE,
                                       NextProtos |-> t.ApplicationProtocols,
                                       ClientCAs |-> cas.pool,
                                       ClientAuth |-> t.ClientAuth],
                             err |-> "none"]

\* func (t *TLS) Config() (conf *tls.Config, err error)
TLSConfig(t) ==
    IF t.isNil
      THEN [conf |-> NoConf, err |-> "none"]
      ELSE IF t.ClientCAs = <<>> /\ t.ClientAuth > 0
        THEN Failed("client authentication but no client CAs")
        ELSE IF ~t.keyPairOK
          THEN Failed("parse certificate and private key")
          ELSE LET cas == ParseClientCAs(t.ClientCAs, 0, {})
               IN  IF cas.err # "none"
                     THEN Failed(cas.err)
                     ELSE IF t.ClientCAs # <<>> /\ cas.certs = 0
                       THEN Failed("unable to parse provided client CAs")
                       ELSE [conf |-> [isNil |-> FALSE,
                                       NextProtos |-> t.ApplicationProtocols,
                                       ClientCAs |-> cas.pool,
                                       ClientAuth |-> t.ClientAuth],
                             err |-> "none"]

RECURSIVE SeqsUpTo(_, _)
SeqsUpTo(S, n) ==
    IF n = 0 THEN {<<>>}
    ELSE LET shorter == SeqsUpTo(S, n - 1)
         IN  shorter \cup {Append(s, x) : s \in shorter, x \in S}

NilTLS == [isNil |-> TRUE, keyPairOK |-> FALSE, ClientCAs |-> <<>>,
           ApplicationProtocols |-> <<>>, ClientAuth |-> 0]
\* the values a rule's tls block can hold
TLSInputs ==
    {NilTLS} \cup
    [isNil : {FALSE}, keyPairOK : BOOLEAN, ClientCAs : SeqsUpTo(Sections, MaxBlocks),
     ApplicationProtocols : {<<>>, <<"h2", "http/1.1">>}, ClientAuth : 0..4]

Pending == [conf |-> NoConf, err |-> "pending"]

\* conf, err := t.Config()
BuildTLS ==
    /\ tlsOut = Pending
    /\ tlsOut' = TLSConfig(tlsIn)
    /\ UNCHANGED <<listener, tlsOn, lstate, lowner, closeCalls, call, loop, panicked, conn, tlsIn, ctlVars>>

\* ------------------------------------------------- ForwardRule.NewForwarder
\* tls blocks of a rule: none, one that builds, one whose key pair is broken
GoodTLS == [isNil |-> FALSE, keyPairOK |-> TRUE, ClientCAs |-> <<>>,
            ApplicationProtocols |-> <<>>, ClientAuth |-> 0]
BadTLS == [GoodTLS EXCEPT !.keyPairOK = FALSE]
RuleValues == [DialTimeout : {0, 5}, TLS : {NilTLS, GoodTLS, BadTLS}]
Configs ==
    [EnableListeners : BOOLEAN, DialTimeout : {10},
     Rules : UNION {[D -> RuleValues] : D \in SUBSET RuleNames}]
NoConfig == [EnableListeners |-> FALSE, DialTimeout |-> 0, Rules |-> <<>>]

NoFwd == [built |-> FALSE, DialTimeout |-> 0, timeout |-> 0]

\* func (r ForwardRule) NewForwarder(name, defaultDialTimeout) (*Forwarder, error)
NewForwarder(r, defaultDialTimeout) ==
    LET f == [built |-> TRUE, DialTimeout |-> r.DialTimeout, timeout |-> defaultDialTimeout]
        t == TLSConfig(r.TLS)
    IN  IF t.err # "none"
          THEN [f |-> NoFwd, tlsConf |-> NoConf, err |-> "new forwarder"]
          ELSE [f |-> IF r.DialTimeout # 0
                        THEN [f EXCEPT !.DialTimeout = r.DialTimeout]
                        ELSE f,
                tlsConf |-> t.conf,
                err |-> "none"]

\* net.DialTimeout(f.Connect.Network, f.Connect.Address, f.timeout)
DialTimeoutOf(name) == fwd[name].timeout

\* ------------------------------------------------------------------ Harald
Signals == {"SIGTERM", "SIGUSR1", "SIGUSR2", "SIGHUP"}
NoMain == [pc |-> "off", todo |-> {}, forwarders |-> <<>>, i |-> 1, after |-> "loop",
           seen |-> <<>>, calls |-> <<>>, err |-> "none"]

\* mutant: a rule whose forwarder cannot be built is skipped
HaraldNewForwarderSkips ==
    /\ main.pc = "rules"
    /\ \E name \in main.todo :
          LET res == NewForwarder(cfg.Rules[name], cfg.DialTimeout)
          IN  IF res.err # "none"
                THEN /\ main' = [main EXCEPT !.todo = @ \ {name}]
                     /\ UNCHANGED <<fwd, tlsOn>>
                ELSE /\ main' = [main EXCEPT !.todo = @ \ {name},
                                             !.forwarders = Append(@, name)]
                     /\ fwd' = [fwd EXCEPT ![name] = res.f]
                     /\ tlsOn' = [tlsOn EXCEPT ![name] = ~res.tlsConf.isNil]
    /\ UNCHANGED <<listener, lstate, lowner, closeCalls, call, loop, panicked, conn,
                   tlsIn, tlsOut, cfg, signals, dur>>

\* for name, r := range c.Rules { f, err = r.NewForwarder(...); if err != nil
\* { return }; forwarders = append(forwarders, f) }: one round, the order of
\* the rounds is the map's
HaraldNewForwarder ==
    /\ main.pc = "rules"
    /\ \E name \in main.todo :
          LET res == NewForwarder(cfg.Rules[name], cfg.DialTimeout)
          IN  IF res.err # "none"
                THEN /\ main' = [main EXCEPT !.pc = "ret", !.err = "harald: new forwarder"]
                     /\ UNCHANGED <<fwd, tlsOn>>
                ELSE /\ main' = [main EXCEPT !.todo = @ \ {name},
                                             !.forwarders = Append(@, name)]
                     /\ fwd' = [fwd EXCEPT ![name] = res.f]
                     /\ tlsOn' = [tlsOn EXCEPT ![name] = ~res.tlsConf.isNil]
    /\ UNCHANGED <<listener, lstate, lowner, closeCalls, call, loop, panicked, conn,
                   tlsIn, tlsOut, cfg, signals, dur>>

\* mutant: the entry point goes on without forwarders
HaraldReadyUnchecked ==
    /\ main.pc = "rules" /\ main.todo = {}
    /\ IF cfg.EnableListeners
         THEN main' = [main EXCEPT !.pc = "startAll", !.i = 1, !.after = "loop"]
         ELSE main' = [main EXCEPT !.pc = "loop"]
    /\ UNCHANGED <<listener, tlsOn, lstate, lowner, closeCalls, call, loop, panicked,
                   conn, tlsIn, tlsOut, cfg, signals, fwd, dur>>

\* mutant: enable_listeners is ignored
HaraldReadyNeverStarts ==
    /\ main.pc = "rules" /\ main.todo = {}
    /\ IF Len(main.forwarders) = 0
         THEN main' = [main EXCEPT !.pc = "ret", !.err = "harald: no forwarders configured"]
         ELSE main' = [main EXCEPT !.pc = "loop"]
    /\ UNCHANGED <<listener, tlsOn, lstate, lowner, closeCalls, call, loop, panicked,
                   conn, tlsIn, tlsOut, cfg, signals, fwd, dur>>

\* if len(forwarders) == 0 { return error }; "harald is ready";
\* if c.EnableListeners { forwarders.Start() }
HaraldReady ==
    /\ main.pc = "rules" /\ main.todo = {}
    /\ IF Len(main.forwarders) = 0
         THEN main' = [main EXCEPT !.pc = "ret", !.err = "harald: no forwarders configured"]
         ELSE IF cfg.EnableListeners
           THEN main' = [main EXCEPT !.pc = "startAll", !.i = 1, !.after = "loop"]
           ELSE main' = [main EXCEPT !.pc = "loop"]
    /\ UNCHANGED <<listener, tlsOn, lstate, lowner, closeCalls, call, loop, panicked,
                   conn, tlsIn, tlsOut, cfg, signals, fwd, dur>>

\* close(signals), after everything sent on the channel
ChannelClosed == "closed"

\* mutant: a signal that has no case shuts down
HaraldReceiveUnknownStops ==
    /\ ~panicked
    /\ main.pc = "loop"
    /\ signals # <<>> /\ Head(signals) # ChannelClosed
    /\ signals' = Tail(signals)
    /\ LET sig == Head(signals)
           m == [main EXCEPT !.seen = Append(@, sig), !.calls = <<>>, !.i = 1]
       IN  main' = IF sig = "SIGUSR1" THEN [m EXCEPT !.pc = "startAll", !.after = "loop"]
                   ELSE IF sig = "SIGUSR2" THEN [m EXCEPT !.pc = "stopAll", !.after = "loop"]
                   ELSE [m EXCEPT !.pc = "stopAll", !.after = "ret"]
    /\ UNCHANGED <<listener, tlsOn, lstate, lowner, closeCalls, call, loop, panicked,
                   conn, tlsIn, tlsOut, cfg, fwd, dur>>

\* for sig := range signals { switch sig { ... } }: the next signal is taken
\* from the channel and its case is chosen
HaraldReceive ==
    /\ ~panicked
    /\ main.pc = "loop"
    /\ signals # <<>> /\ Head(signals) # ChannelClosed
    /\ signals' = Tail(signals)
    /\ LET sig == Head(signals)
           m == [main EXCEPT !.seen = Append(@, sig), !.calls = <<>>, !.i = 1]
       IN  main' = IF sig = "SIGTERM" THEN [m EXCEPT !.pc = "stopAll", !.after = "ret"]
                   ELSE IF sig = "SIGUSR1" THEN [m EXCEPT !.pc = "startAll", !.after = "loop"]
                   ELSE IF sig = "SIGUSR2" THEN [m EXCEPT !.pc = "stopAll", !.after = "loop"]
                   ELSE m
    /\ UNCHANGED <<listener, tlsOn, lstate, lowner, closeCalls, call, loop, panicked,
                   conn, tlsIn, tlsOut, cfg, fwd, dur>>

\* mutant: the end of the channel is taken as a shutdown
HaraldChannelClosedStops ==
    /\ ~panicked
    /\ main.pc = "loop"
    /\ signals # <<>> /\ Head(signals) = ChannelClosed
    /\ main' = [main EXCEPT !.pc = "stopAll", !.after = "ret", !.calls = <<>>, !.i = 1]
    /\ UNCHANGED <<listener, tlsOn, lstate, lowner, closeCalls, call, loop, panicked,
                   conn, tlsIn, tlsOut, cfg, signals, fwd, dur>>

\* for sig := range signals { ... }; return nil: the channel is closed and
\* empty, the range ends
HaraldChannelClosed ==
    /\ ~panicked
    /\ main.pc = "loop"
    /\ signals # <<>> /\ Head(signals) = ChannelClosed
    /\ main' = [main EXCEPT !.pc = "ret"]
    /\ UNCHANGED <<listener, tlsOn, lstate, lowner, closeCalls, call, loop, panicked,
                   conn, tlsIn, tlsOut, cfg, signals, fwd, dur>>

\* Forwarders.Start: err = f.Start() is called on the next forwarder
ForwardersStartCall ==
    /\ ~panicked
    /\ main.pc = "startAll" /\ main.i <= Len(main.forwarders)
    /\ call[MainThread].pc = "idle"
    /\ LET f == main.forwarders[main.i]
       IN  /\ call' = [call EXCEPT ![MainThread] =
                          [IdleCall EXCEPT !.op = "Start", !.f = f, !.pc = "check"]]
           /\ main' = [main EXCEPT !.pc = "starting", !.calls = Append(@, <<"Start", f>>)]
    /\ UNCHANGED <<listener, tlsOn, lstate, lowner, closeCalls, loop, panicked, conn,
                   tlsIn, tlsOut, cfg, signals, fwd, dur>>

\* mutant: the first Start() that fails ends the round
ForwardersStartReturnGivesUp ==
    /\ ~panicked
    /\ main.pc = "starting"
    /\ call[MainThread].op = "Start" /\ call[MainThread].pc = "ret"
    /\ call' = [call EXCEPT ![MainThread] = IdleCall]
    /\ main' = [main EXCEPT !.pc = "startAll",
                            !.i = IF call[MainThread].err
                                    THEN Len(main.forwarders) + 1 ELSE @ + 1]
    /\ UNCHANGED <<listener, tlsOn, lstate, lowner, closeCalls, loop, panicked, conn,
                   tlsIn, tlsOut, cfg, signals, fwd, dur>>

\* Forwarders.Start: f.Start() has returned; an error is logged and the range
\* goes on
ForwardersStartReturn ==
    /\ ~panicked
    /\ main.pc = "starting"
    /\ call[MainThread].op = "Start" /\ call[MainThread].pc = "ret"
    /\ call' = [call EXCEPT ![MainThread] = IdleCall]
    /\ main' = [main EXCEPT !.pc = "startAll", !.i = @ + 1]
    /\ UNCHANGED <<listener, tlsOn, lstate, lowner, closeCalls, loop, panicked, conn,
                   tlsIn, tlsOut, cfg, signals, fwd, dur>>

\* Forwarders.Start has ranged over all forwarders: "started listeners"
ForwardersStartDone ==
    /\ ~panicked
    /\ main.pc = "startAll" /\ main.i > Len(main.forwarders)
    /\ main' = [main EXCEPT !.pc = "loop"]
    /\ UNCHANGED <<listener, tlsOn, lstate, lowner, closeCalls, call, loop, panicked,
                   conn, tlsIn, tlsOut, cfg, signals, fwd, dur>>

\* mutant: only the first forwarder is stopped
ForwardersStopCallFirstOnly ==
    /\ ~panicked
    /\ main.pc = "stopAll" /\ main.i <= Len(main.forwarders)
    /\ call[MainThread].pc = "idle"
    /\ IF main.i = 1
         THEN /\ call' = [call EXCEPT ![MainThread] =
                            [IdleCall EXCEPT !.op = "Stop", !.f = main.forwarders[1],
                                             !.pc = "test"]]
              /\ main' = [main EXCEPT !.pc = "stopping",
                                      !.calls = Append(@, <<"Stop", main.forwarders[1]>>)]
         ELSE /\ main' = [main EXCEPT !.i = @ + 1]
              /\ UNCHANGED call
    /\ UNCHANGED <<listener, tlsOn, lstate, lowner, closeCalls, loop, panicked, conn,
                   tlsIn, tlsOut, cfg, signals, fwd, dur>>

\* Forwarders.Stop: f.Stop() is called on the next forwarder
ForwardersStopCall ==
    /\ ~panicked
    /\ main.pc = "stopAll" /\ main.i <= Len(main.forwarders)
    /\ call[MainThread].pc = "idle"
    /\ LET f == main.forwarders[main.i]
       IN  /\ call' = [call EXCEPT ![MainThread] =
                          [IdleCall EXCEPT !.op = "Stop", !.f = f, !.pc = "test"]]
           /\ main' = [main EXCEPT !.pc = "stopping", !.calls = Append(@, <<"Stop", f>>)]
    /\ UNCHANGED <<listener, tlsOn, lstate, lowner, closeCalls, loop, panicked, conn,
                   tlsIn, tlsOut, cfg, signals, fwd, dur>>

\* Forwarders.Stop: f.Stop() has returned (it returns nothing)
ForwardersStopReturn ==
    /\ ~panicked
    /\ main.pc = "stopping"
    /\ call[MainThread].op = "Stop" /\ call[MainThread].pc = "ret"
    /\ call' = [call EXCEPT ![MainThread] = IdleCall]
    /\ main' = [main EXCEPT !.pc = "stopAll", !.i = @ + 1]
    /\ UNCHANGED <<listener, tlsOn, lstate, lowner, closeCalls, loop, panicked, conn,
                   tlsIn, tlsOut, cfg, signals, fwd, dur>>

\* Forwarders.Stop has ranged over all forwarders: "stopped listeners", and
\* for SIGTERM return nil
ForwardersStopDone ==
    /\ ~panicked
    /\ main.pc = "stopAll" /\ main.i > Len(main.forwarders)
    /\ main' = [main EXCEPT !.pc = main.after]
    /\ UNCHANGED <<listener, tlsOn, lstate, lowner, closeCalls, call, loop, panicked,
                   conn, tlsIn, tlsOut, cfg, signals, fwd, dur>>

\* ------------------------------------------------- Duration.UnmarshalText
\* the characters of a duration text
Chars == {"0", "1", "m", "s"}
Digits == {"0", "1"}
DigitValue(ch) == IF ch = "1" THEN 1 ELSE 0
\* the units of time.ParseDuration that the characters can spell, in milliseconds
UnitValue(u) ==
    IF u = <<"m", "s">> THEN 1
    ELSE IF u = <<"s">> THEN 1000
    ELSE IF u = <<"m">> THEN 60000
    ELSE 0

\* the longest prefix of s whose characters are in S
RECURSIVE Leading(_, _)
Leading(s, S) ==
    IF s # <<>> /\ Head(s) \in S THEN <<Head(s)>> \o Leading(Tail(s), S) ELSE <<>>

RECURSIVE Number(_, _)
Number(ds, acc) == IF ds = <<>> THEN acc ELSE Number(Tail(ds), acc * 10 + DigitValue(Head(ds)))

\* the loop of time.ParseDuration: ([0-9]+[a-z]+)+, the sum of the groups
RECURSIVE ParseGroups(_, _)
ParseGroups(s, acc) ==
    IF s = <<>>
      THEN [ok |-> TRUE, value |-> acc]
      ELSE LET ds == Leading(s, Digits)
               rest == SubSeq(s, Len(ds) + 1, Len(s))
               u == Leading(rest, Chars \ Digits)
           IN  IF ds = <<>> THEN [ok |-> FALSE, value |-> 0]          \* invalid duration
               ELSE IF u = <<>> THEN [ok |-> FALSE, value |-> 0]      \* missing unit
               ELSE IF UnitValue(u) = 0 THEN [ok |-> FALSE, value |-> 0] \* unknown unit
               ELSE ParseGroups(SubSeq(rest, Len(u) + 1, Len(rest)),
                                acc + Number(ds, 0) * UnitValue(u))

\* time.ParseDuration
ParseDuration(s) ==
    IF s = <<>> THEN [ok |-> FALSE, value |-> 0]
    ELSE IF s = <<"0">> THEN [ok |-> TRUE, value |-> 0]
    ELSE ParseGroups(s, 0)

\* mutant: the value is stored before the error is looked at
UnmarshalTextStoresFirst(text, d) ==
    LET t == ParseDuration(text)
    IN  [d |-> t.value, err |-> ~t.ok]

\* func (d *Duration) UnmarshalText(text []byte) error
UnmarshalText(text, d) ==
    LET t == ParseDuration(text)
    IN  IF ~t.ok THEN [d |-> d, err |-> TRUE]
        ELSE [d |-> t.value, err |-> FALSE]

\* json.Unmarshal(b, &d): only a JSON string reaches UnmarshalText
JsonUnmarshal(quoted, text, d) ==
    IF ~quoted THEN [d |-> d, err |-> TRUE]
    ELSE UnmarshalText(text, d)

DurOff == [pc |-> "off", quoted |-> FALSE, text |-> <<>>, was |-> 0, d |-> 0, err |-> FALSE]
\* var d Duration (or a value decoded earlier) and the bytes to decode
DurInputs ==
    {[pc |-> "in", quoted |-> q, text |-> t, was |-> w, d |-> w, err |-> FALSE] :
        q \in BOOLEAN, t \in SeqsUpTo(Chars, MaxText), w \in {0, 7}}

\* err := json.Unmarshal(tt.b, &d)
DecodeDuration ==
    /\ dur.pc = "in"
    /\ LET res == JsonUnmarshal(dur.quoted, dur.text, dur.d)
       IN  dur' = [dur EXCEPT !.pc = "out", !.d = res.d, !.err = res.err]
    /\ UNCHANGED <<listener, tlsOn, lstate, lowner, closeCalls, call, loop, panicked,
                   conn, tlsIn, tlsOut, cfg, signals, main, fwd>>

\* --------------------------------------------------------- specifications
InitCommon ==
    /\ listener = [f \in FwdIds |-> NoListener]
    /\ lstate = [id \in ListenerIds |-> "unbound"]
    /\ lowner = [id \in ListenerIds |-> 0]
    /\ closeCalls = [id \in ListenerIds |-> 0]
    /\ call = [t \in Threads |-> IdleCall]
    /\ loop = [id \in ListenerIds |-> NoLoop]
    /\ panicked = FALSE
    /\ conn = [c \in ConnIds |-> NoConn]
    /\ cfg = NoConfig
    /\ signals = <<>>
    /\ main = NoMain
    /\ fwd = [name \in RuleNames |-> NoFwd]
    /\ dur = DurOff

\* a Forwarder literal without a TLS configuration, as the tests build it
InitFwd ==
    /\ InitCommon
    /\ tlsOn = [f \in FwdIds |-> FALSE]
    /\ tlsIn = NilTLS
    /\ tlsOut = Pending

\* a Forwarder literal, with or without a TLS configuration
InitConn ==
    /\ InitCommon
    /\ tlsOn \in [FwdIds -> BOOLEAN]
    /\ tlsIn = NilTLS
    /\ tlsOut = Pending

\* one caller at a time, as the control loop calls Start and Stop; no client
\* connects
NextFwd ==
    \/ \E f \in FwdIds : StartCall("t1", f)
    \/ StartCheck("t1")
    \/ StartListen("t1")
    \/ StartStore("t1")
    \/ StartGo("t1")
    \/ \E f \in FwdIds : StopCall("t1", f)
    \/ StopTest("t1")
    \/ StopCapture("t1")
    \/ StopClear("t1")
    \/ StopClose("t1")
    \/ \E id \in ListenerIds : LoopRead(id)
    \/ \E id \in ListenerIds : LoopAcceptClosed(id)
    \/ \E id \in ListenerIds : LoopAcceptErr(id)

SpecFwd == InitFwd /\ [][NextFwd]_vars

\* the same, with the accept-loop goroutines scheduled: a loop that can take
\* its next step takes it, and Accept() on a closed listener returns
SpecFwdFair ==
    /\ SpecFwd
    /\ \A id \in ListenerIds : WF_vars(LoopRead(id)) /\ WF_vars(LoopAcceptClosed(id))

\* the scenario of TestClosingListenerDoesntCloseConnection and
\* TestNoUpstreamConnection: the forwarder is started once, one client
\* connects, both peers write and close as they like, and Stop() is called at
\* any moment, any number of times
NextConn ==
    \/ \E f \in FwdIds : FreeListeners = ListenerIds /\ StartCall("t1", f)
    \/ StartCheck("t1")
    \/ StartListen("t1")
    \/ StartStore("t1")
    \/ StartGo("t1")
    \/ \E f \in FwdIds : StopCall("t1", f)
    \/ StopTest("t1")
    \/ StopCapture("t1")
    \/ StopClear("t1")
    \/ StopClose("t1")
    \/ \E id \in ListenerIds : LoopRead(id)
    \/ \E id \in ListenerIds : LoopAcceptClosed(id)
    \/ \E id \in ListenerIds : LoopAcceptErr(id)
    \/ \E id \in ListenerIds : FreeConns = ConnIds /\ LoopAcceptConn(id)
    \/ \E c \in ConnIds : HandleDial(c)
    \/ \E c \in ConnIds : HandleWrap(c)
    \/ \E c \in ConnIds, d \in Dirs : CopyRead(c, d)
    \/ \E c \in ConnIds, d \in Dirs : CopyWrite(c, d)
    \/ \E c \in ConnIds : HandleCloseT(c)
    \/ \E c \in ConnIds : HandleCloseS(c)
    \/ \E c \in ConnIds : ClientWrite(c)
    \/ \E c \in ConnIds : ClientClose(c)
    \/ \E c \in ConnIds : UpstreamWrite(c)
    \/ \E c \in ConnIds : UpstreamClose(c)

SpecConn == InitConn /\ [][NextConn]_vars

\* several clients of one forwarder: a forwarder without TLS is started once
\* and never stopped, every client that connects sends its bytes and may
\* close, the upstream only reads
InitMany ==
    /\ InitCommon
    /\ tlsOn = [f \in FwdIds |-> FALSE]
    /\ tlsIn = NilTLS
    /\ tlsOut = Pending

NextMany ==
    \/ \E f \in FwdIds : FreeListeners = ListenerIds /\ StartCall("t1", f)
    \/ StartCheck("t1")
    \/ StartListen("t1")
    \/ StartStore("t1")
    \/ StartGo("t1")
    \/ \E id \in ListenerIds : LoopRead(id)
    \/ \E id \in ListenerIds : LoopAcceptConn(id)
    \/ \E c \in ConnIds : HandleDial(c)
    \/ \E c \in ConnIds : HandleWrap(c)
    \/ \E c \in ConnIds, d \in Dirs : CopyRead(c, d)
    \/ \E c \in ConnIds, d \in Dirs : CopyWrite(c, d)
    \/ \E c \in ConnIds : HandleCloseT(c)
    \/ \E c \in ConnIds : HandleCloseS(c)
    \/ \E c \in ConnIds : ClientWrite(c)
    \/ \E c \in ConnIds : ClientClose(c)

SpecMany == InitMany /\ [][NextMany]_vars

\* the same, with the goroutines of a connection scheduled: a handler whose
\* context is cancelled returns and runs its deferred closes, and a Read or
\* Write on a closed socket returns; what the peers do is left to them
SpecManyFair ==
    /\ SpecMany
    /\ \A c \in ConnIds :
          /\ WF_vars(HandleCloseT(c))
          /\ WF_vars(HandleCloseS(c))
          /\ \A d \in Dirs :
                /\ WF_vars(CopyRead(c, d) /\ SrcState(c, d) = "closed")
                /\ WF_vars(CopyWrite(c, d) /\ DstState(c, d) = "closed")

\* two callers inside Start and Stop of the same forwarder at the same time
NextRace ==
    \/ \E t \in Threads, f \in FwdIds : StartCall(t, f)
    \/ \E t \in Threads : StartCheck(t)
    \/ \E t \in Threads : StartListen(t)
    \/ \E t \in Threads : StartStore(t)
    \/ \E t \in Threads : StartGo(t)
    \/ \E t \in Threads, f \in FwdIds : StopCall(t, f)
    \/ \E t \in Threads : StopTest(t)
    \/ \E t \in Threads : StopCapture(t)
    \/ \E t \in Threads : StopClear(t)
    \/ \E t \in Threads : StopClose(t)
    \/ \E id \in ListenerIds : LoopRead(id)
    \/ \E id \in ListenerIds : LoopAcceptClosed(id)
    \/ \E id \in ListenerIds : LoopAcceptErr(id)

SpecRace == InitFwd /\ [][NextRace]_vars

\* the builder applied to every value of a tls block
InitTLS ==
    /\ InitCommon
    /\ tlsOn = [f \in FwdIds |-> FALSE]
    /\ tlsIn \in TLSInputs
    /\ tlsOut = Pending

NextTLS == BuildTLS

SpecTLS == InitTLS /\ [][NextTLS]_vars

\* Harald(c, signals) called with a configuration and a channel that will
\* deliver the given signals
InitCtl ==
    /\ listener = [f \in RuleNames |-> NoListener]
    /\ tlsOn = [f \in RuleNames |-> FALSE]
    /\ lstate = [id \in ListenerIds |-> "unbound"]
    /\ lowner = [id \in ListenerIds |-> 0]
    /\ closeCalls = [id \in ListenerIds |-> 0]
    /\ call = [t \in Threads |-> IdleCall]
    /\ loop = [id \in ListenerIds |-> NoLoop]
    /\ panicked = FALSE
    /\ conn = [c \in ConnIds |-> NoConn]
    /\ tlsIn = NilTLS
    /\ tlsOut = Pending
    /\ cfg \in Configs
    /\ signals \in SeqsUpTo(Signals, MaxSignals)
    /\ main = [NoMain EXCEPT !.pc = "rules", !.todo = DOMAIN cfg.Rules]
    /\ fwd = [name \in RuleNames |-> NoFwd]
    /\ dur = DurOff

NextCtl ==
    \/ HaraldNewForwarder
    \/ HaraldReady
    \/ HaraldReceive
    \/ ForwardersStartCall
    \/ ForwardersStartReturn
    \/ ForwardersStartDone
    \/ ForwardersStopCall
    \/ ForwardersStopReturn
    \/ ForwardersStopDone
    \/ StartCheck(MainThread)
    \/ StartListen(MainThread)
    \/ StartStore(MainThread)
    \/ StartGo(MainThread)
    \/ StopTest(MainThread)
    \/ StopCapture(MainThread)
    \/ StopClear(MainThread)
    \/ StopClose(MainThread)
    \/ \E id \in ListenerIds : LoopRead(id)
    \/ \E id \in ListenerIds : LoopAcceptClosed(id)
    \/ \E id \in ListenerIds : LoopAcceptErr(id)

SpecCtl == InitCtl /\ [][NextCtl]_vars

\* the same with a sender that closes the channel after its last signal, as a
\* caller of Harald other than Main can
InitClose ==
    /\ listener = [f \in RuleNames |-> NoListener]
    /\ tlsOn = [f \in RuleNames |-> FALSE]
    /\ lstate = [id \in ListenerIds |-> "unbound"]
    /\ lowner = [id \in ListenerIds |-> 0]
    /\ closeCalls = [id \in ListenerIds |-> 0]
    /\ call = [t \in Threads |-> IdleCall]
    /\ loop = [id \in ListenerIds |-> NoLoop]
    /\ panicked = FALSE
    /\ conn = [c \in ConnIds |-> NoConn]
    /\ tlsIn = NilTLS
    /\ tlsOut = Pending
    /\ cfg \in Configs
    /\ signals \in {Append(q, ChannelClosed) : q \in SeqsUpTo(Signals, MaxSignals)}
    /\ main = [NoMain EXCEPT !.pc = "rules", !.todo = DOMAIN cfg.Rules]
    /\ fwd = [name \in RuleNames |-> NoFwd]
    /\ dur = DurOff

NextClose ==
    \/ NextCtl
    \/ HaraldChannelClosed

SpecClose == InitClose /\ [][NextClose]_vars

\* one rule from the configuration to its connections: the forwarder of the
\* rule is built with or without a tls block, started at startup
\* (enable_listeners), and serves one client
InitRule ==
    /\ InitCtl
    /\ cfg.EnableListeners
    /\ DOMAIN cfg.Rules = FwdIds
    /\ signals = <<>>

NextRule ==
    \/ HaraldNewForwarder
    \/ HaraldReady
    \/ ForwardersStartCall
    \/ ForwardersStartReturn
    \/ ForwardersStartDone
    \/ StartCheck(MainThread)
    \/ StartListen(MainThread)
    \/ StartStore(MainThread)
    \/ StartGo(MainThread)
    \/ \E id \in ListenerIds : LoopRead(id)
    \/ \E id \in ListenerIds : FreeConns = ConnIds /\ LoopAcceptConn(id)
    \/ \E c \in ConnIds : HandleDial(c)
    \/ \E c \in ConnIds : HandleWrap(c)
    \/ \E c \in ConnIds, d \in Dirs : CopyRead(c, d)
    \/ \E c \in ConnIds, d \in Dirs : CopyWrite(c, d)
    \/ \E c \in ConnIds : HandleCloseT(c)
    \/ \E c \in ConnIds : HandleCloseS(c)
    \/ \E c \in ConnIds : ClientWrite(c)
    \/ \E c \in ConnIds : ClientClose(c)
    \/ \E c \in ConnIds : UpstreamWrite(c)

SpecRule == InitRule /\ [][NextRule]_vars

\* the decoding applied to every text of the bound
InitDur ==
    /\ listener = [f \in FwdIds |-> NoListener]
    /\ tlsOn = [f \in FwdIds |-> FALSE]
    /\ lstate = [id \in ListenerIds |-> "unbound"]
    /\ lowner = [id \in ListenerIds |-> 0]
    /\ closeCalls = [id \in ListenerIds |-> 0]
    /\ call = [t \in Threads |-> IdleCall]
    /\ loop = [id \in ListenerIds |-> NoLoop]
    /\ panicked = FALSE
    /\ conn = [c \in ConnIds |-> NoConn]
    /\ tlsIn = NilTLS
    /\ tlsOut = Pending
    /\ cfg = NoConfig
    /\ signals = <<>>
    /\ main = NoMain
    /\ fwd = [name \in RuleNames |-> NoFwd]
    /\ dur \in DurInputs

NextDur == DecodeDuration

SpecDur == InitDur /\ [][NextDur]_vars

\* ----------------------------------------------------------------- claims
\* thread t takes the step of this transition
Steps(t) == call'[t] # call[t]
Returned(t, op) == call[t].op = op /\ call[t].pc = "ret"

\* C1: a Start() that finds the listener handle present returns success, binds
\* no listener, launches no accept loop and leaves the handle as it is; after
\* any Start() that returned success, so also after the second of two in a
\* row, the forwarder has exactly one open listener, the one in its handle.
C1_StartIdempotent ==
    /\ [][\A t \in Threads :
            (/\ call[t].op = "Start" /\ call[t].pc = "check"
             /\ listener[call[t].f] # NoListener
             /\ Steps(t))
            => /\ call'[t].pc = "ret" /\ call'[t].ret = "already" /\ ~call'[t].err
               /\ UNCHANGED <<listener, lstate, lowner, closeCalls, loop, conn, panicked>>]_vars
    /\ [](\A t \in Threads :
            (Returned(t, "Start") /\ call[t].ret \in {"bound", "already"})
            => /\ Cardinality(OpenListeners(call[t].f)) = 1
               /\ listener[call[t].f] \in OpenListeners(call[t].f))

\* a second Start() has returned through the "already open" path
C1_Witness ==
    /\ Returned("t1", "Start") /\ call["t1"].ret = "already"
    /\ Cardinality(OpenListeners(call["t1"].f)) = 1

\* C2: a Stop() that finds the listener handle absent returns without error,
\* closes nothing and changes nothing of the forwarder.
C2_StopWhenStoppedIsNoop ==
    [][\A t \in Threads :
          (/\ call[t].op = "Stop" /\ call[t].pc = "test"
           /\ listener[call[t].f] = NoListener
           /\ Steps(t))
          => /\ call'[t].pc = "ret" /\ call'[t].ret = "already" /\ ~call'[t].err
             /\ UNCHANGED <<listener, lstate, lowner, closeCalls, loop, conn, panicked>>]_vars

\* Stop() has returned on a forwarder that was never started, and on one that
\* had been stopped before
C2_Witness ==
    /\ Returned("t1", "Stop") /\ call["t1"].ret = "already"
    /\ \A id \in ListenerIds : closeCalls[id] = 0

\* C4: whenever no Start() or Stop() is in progress, the listener handle is
\* present exactly if the forwarder has an open listener, which is then the
\* one in the handle and the only one.
C4_HandleIffStarted ==
    \A f \in FwdIds :
        InProgress(f) = {}
        => /\ (listener[f] # NoListener) <=> (OpenListeners(f) # {})
           /\ listener[f] # NoListener => OpenListeners(f) = {listener[f]}

\* the forwarder is Started again after it was Stopped
C4_Witness ==
    \E f \in FwdIds :
        /\ InProgress(f) = {}
        /\ listener[f] # NoListener
        /\ \E id \in ListenerIds : lowner[id] = f /\ lstate[id] = "closed"

\* C3 (as claimed): two concurrent Stop() calls never call Close() on an absent
\* handle, and the listener is closed exactly once: every Stop() that has
\* returned after capturing a listener is the only one that called Close() on it.
C3_ConcurrentStopClosesOnce ==
    /\ \A t \in Threads :
          (call[t].op = "Stop" /\ call[t].pc = "close") => call[t].l # NoListener
    /\ \A t \in Threads :
          (Returned(t, "Stop") /\ call[t].l # NoListener) => closeCalls[call[t].l] = 1

IsPrefix(s, t) == Len(s) <= Len(t) /\ SubSeq(t, 1, Len(s)) = s
HandlerEnded(c) == conn[c].hpc = "done"
Dialled(c) == conn[c].tgt # "none"
CopyStopped(c, d) == conn[c].cp[d] \in {"eof", "err"}

\* C5: no step of Stop() touches a connection, and a socket of a connection is
\* closed only by the exit path of its own handler: connections handed to a
\* handler keep relaying after Stop() has returned.
C5_StopLeavesConnections ==
    /\ [][(\E t \in Threads : call[t].op = "Stop" /\ Steps(t)) => conn' = conn]_vars
    /\ [](\A c \in ConnIds :
            /\ conn[c].src = "closed" => HandlerEnded(c)
            /\ conn[c].tgt = "closed" => conn[c].hpc \in {"closeS", "done"})

\* after Stop() closed the listener and returned, the connection it had
\* accepted has relayed a byte in each direction
C5_Witness ==
    \E c \in ConnIds :
        /\ \A d \in Dirs : conn[c].afterStop[d]
        /\ conn[c].toUp = conn[c].cw /\ conn[c].cw # <<>>
        /\ conn[c].toCl = conn[c].uw /\ conn[c].uw # <<>>

\* C6: the inbound socket is wrapped in the TLS layer, and a handshake step
\* happens on it, only after the upstream dial of that connection succeeded;
\* after a failed dial the handler ends with the inbound socket closed and
\* never wrapped.
C6_TLSOnlyAfterDial ==
    \A c \in ConnIds :
        /\ (conn[c].wrapped \/ conn[c].hs) => (Dialled(c) /\ conn[c].dials = 1)
        /\ (HandlerEnded(c) /\ ~Dialled(c))
              => (conn[c].src = "closed" /\ ~conn[c].wrapped /\ ~conn[c].hs)

\* on a TLS forwarder a dial failed and the handler has ended
C6_Witness ==
    \E c \in ConnIds :
        /\ HandlerEnded(c) /\ ~Dialled(c)
        /\ tlsOn[conn[c].f]
        /\ conn[c].dials = 1 /\ conn[c].src = "closed"

\* C7: when the handler has ended it has closed the inbound socket exactly
\* once and, if the dial succeeded, the upstream socket exactly once; no
\* socket is ever closed twice.
C7_SocketsClosedOnce ==
    \A c \in ConnIds :
        /\ conn[c].srcCloses <= 1 /\ conn[c].tgtCloses <= 1
        /\ HandlerEnded(c)
              => /\ conn[c].srcCloses = 1 /\ conn[c].src = "closed"
                 /\ Dialled(c) => (conn[c].tgtCloses = 1 /\ conn[c].tgt = "closed")
                 /\ ~Dialled(c) => conn[c].tgtCloses = 0

\* the handler ended after a relay in which one direction reached
\* end-of-stream and the other failed
C7_Witness ==
    \E c \in ConnIds :
        /\ HandlerEnded(c) /\ Dialled(c)
        /\ \E d \in Dirs : conn[c].cp[d] = "eof" /\ conn[c].cp[Other(d)] = "err"

\* C8 (as claimed): when the handler of a dialled connection has ended, and
\* it ended because a peer closed its side and not because of an I/O error,
\* the upstream has observed all the bytes the client wrote and the client
\* all the bytes the upstream wrote.
C8_RoundTripAsClaimed ==
    \A c \in ConnIds :
        (HandlerEnded(c) /\ Dialled(c) /\ conn[c].cancelled = "eof")
        => (conn[c].toUp = conn[c].cw /\ conn[c].toCl = conn[c].uw)

\* C8 (amended): what a peer observes is at any time a prefix of what the
\* other peer wrote, for plaintext and TLS forwarders, and it is all of it
\* once the copy of that direction has stopped at the end-of-stream of its
\* source.
C8_RoundTrip ==
    \A c \in ConnIds :
        /\ IsPrefix(conn[c].toUp, conn[c].cw)
        /\ IsPrefix(conn[c].toCl, conn[c].uw)
        /\ conn[c].cp["s2t"] = "eof" => conn[c].toUp = conn[c].cw
        /\ conn[c].cp["t2s"] = "eof" => conn[c].toCl = conn[c].uw

\* a TLS forwarder has relayed all the bytes of both peers
C8_Witness ==
    \E c \in ConnIds :
        /\ conn[c].wrapped /\ tlsOn[conn[c].f]
        /\ Len(conn[c].cw) = MaxBytes /\ conn[c].toUp = conn[c].cw
        /\ Len(conn[c].uw) = MaxBytes /\ conn[c].toCl = conn[c].uw
        /\ conn[c].cp["s2t"] = "eof"

\* C9 (as claimed): the handler has not returned while one of its copy
\* operations is still running.
C9_HandlerWaitsForBoth ==
    \A c \in ConnIds :
        HandlerEnded(c) => \A d \in Dirs : conn[c].cp[d] # "run"

\* C9 (amended): the handler of a dialled connection returns only after one of
\* its copy operations has stopped, and with both sockets closed.
C9_HandlerWaitsForOne ==
    \A c \in ConnIds :
        /\ (Dialled(c) /\ conn[c].hpc \in {"closeS", "done"})
              => \E d \in Dirs : CopyStopped(c, d)
        /\ (Dialled(c) /\ HandlerEnded(c))
              => (conn[c].src = "closed" /\ conn[c].tgt = "closed")

\* the handler has returned and one copy operation has not stopped yet
C9_Witness ==
    \E c \in ConnIds :
        /\ HandlerEnded(c) /\ Dialled(c)
        /\ \E d \in Dirs : conn[c].cp[d] = "run" /\ CopyStopped(c, Other(d))

Built == tlsOut # Pending /\ tlsOut.err = "none" /\ ~tlsOut.conf.isNil

\* C10 (as claimed): a configuration built from a bundle that holds a parsed
\* certificate requires a client certificate and verifies it.
C10_ClientCAsRequireClientCert ==
    (Built /\ tlsOut.conf.ClientCAs # {})
    => AuthName(tlsOut.conf.ClientAuth) = "RequireAndVerifyClientCert"

\* the PEM blocks of a bundle, the text between them left out
PemBlocks(d) == SelectSeq(d, LAMBDA b : b # "junk")
Range(s) == {s[i] : i \in DOMAIN s}

\* C11: a successful build from a tls block without client CAs gives a
\* configuration that asks no client for a certificate: its client-auth level
\* is NoClientCert.
C11_NoClientCAsNoClientAuth ==
    (Built /\ tlsIn.ClientCAs = <<>>)
    => /\ AuthName(tlsOut.conf.ClientAuth) = "NoClientCert"
       /\ tlsOut.conf.ClientCAs = {}

\* a tls block with a key pair and no client CAs has been built
C11_Witness ==
    /\ Built /\ tlsIn.ClientCAs = <<>>
    /\ tlsOut.conf.ClientAuth = 0

\* C12 (as claimed): a successful build from a non-empty bundle has a pool of
\* as many certificates as the bundle has PEM blocks.
C12_PoolHoldsOnePerBlock ==
    (Built /\ tlsIn.ClientCAs # <<>>)
    => Cardinality(tlsOut.conf.ClientCAs) = Len(PemBlocks(tlsIn.ClientCAs))

\* C12: a non-empty bundle from which no certificate is parsed gives an error
\* and no configuration; a successful build from a non-empty bundle has parsed
\* every PEM block of the bundle as a certificate and its pool holds exactly
\* the distinct certificates among them: at least one, at most one per block.
C12_PoolHoldsTheCertificates ==
    /\ (/\ tlsOut # Pending /\ ~tlsIn.isNil /\ tlsIn.ClientCAs # <<>>
        /\ ParseClientCAs(tlsIn.ClientCAs, 0, {}).certs = 0)
       => tlsOut.err # "none" /\ tlsOut.conf.isNil
    /\ (Built /\ tlsIn.ClientCAs # <<>>)
       => /\ \A i \in DOMAIN PemBlocks(tlsIn.ClientCAs) :
               PemBlocks(tlsIn.ClientCAs)[i] \in {"certA", "certB"}
          /\ tlsOut.conf.ClientCAs = Range(PemBlocks(tlsIn.ClientCAs))
          /\ Cardinality(tlsOut.conf.ClientCAs) >= 1
          /\ Cardinality(tlsOut.conf.ClientCAs) <= Len(PemBlocks(tlsIn.ClientCAs))

\* a bundle that holds the same certificate twice has been built into a pool
\* of one certificate
C12_Witness ==
    /\ Built /\ Len(PemBlocks(tlsIn.ClientCAs)) = 2
    /\ Cardinality(tlsOut.conf.ClientCAs) = 1

\* ------------------------------------------------- claims on the entry point
Last(q) == q[Len(q)]
\* the calls of one round of Forwarders.Start or Forwarders.Stop: one per
\* forwarder, in the order of the list
OneCallEach(op) == [i \in 1..Len(main.forwarders) |-> <<op, main.forwarders[i]>>]
NothingBound == \A id \in ListenerIds : lstate[id] = "unbound"
NothingOpen == \A id \in ListenerIds : lstate[id] # "open"
\* Harald returned an error before its signal loop
FailedAtStartup == main.pc = "ret" /\ main.err # "none"
NotReady ==
    /\ main.pc \in {"rules", "ret"}
    /\ main.pc = "ret" => main.err # "none"
    /\ main.seen = <<>> /\ main.calls = <<>>
    /\ call[MainThread] = IdleCall
    /\ NothingBound

\* C13: when Harald has returned success it was on SIGTERM, after one Stop()
\* on every forwarder, whatever the Close() calls reported: every handle is
\* absent and no listener is open; SIGTERM is the last signal taken from the
\* channel, and once Harald has returned nothing is taken from the channel and
\* no Start() or Stop() is called.
C13_ShutdownStopsAllAndEnds ==
    /\ []((main.pc = "ret" /\ main.err = "none")
          => /\ main.seen # <<>> /\ Last(main.seen) = "SIGTERM"
             /\ main.calls = OneCallEach("Stop")
             /\ \A name \in RuleNames : listener[name] = NoListener
             /\ NothingOpen)
    /\ [](\A i \in DOMAIN main.seen : main.seen[i] = "SIGTERM" => i = Len(main.seen))
    /\ [][main.pc = "stopping" /\ main'.pc # "stopping"
            => main'.pc = "stopAll" /\ main'.i = main.i + 1]_vars
    /\ [][main.pc = "ret" => UNCHANGED <<main, signals, call, listener, lstate>>]_vars

\* Harald has returned on SIGTERM with two forwarders, both of which it had
\* started, and a signal is left in the channel
C13_Witness ==
    /\ main.pc = "ret" /\ main.err = "none"
    /\ Len(main.forwarders) = 2
    /\ \A id \in ListenerIds : lstate[id] = "closed"
    /\ signals # <<>>

\* C14: a round of Forwarders.Start calls Start() once on every forwarder, in
\* the order of the list, and goes to the next forwarder whatever Start()
\* returned; a forwarder whose Start() failed has no handle and no open
\* listener; after the round Harald is back in its signal loop.
C14_ActivateAllStartsEach ==
    /\ []((main.pc = "loop" /\ main.seen # <<>> /\ Last(main.seen) = "SIGUSR1")
          => main.calls = OneCallEach("Start"))
    /\ [](\A i, j \in DOMAIN main.forwarders :
             main.forwarders[i] = main.forwarders[j] => i = j)
    /\ []((main.pc = "starting" /\ call[MainThread].pc = "ret" /\ call[MainThread].err)
          => /\ listener[call[MainThread].f] = NoListener
             /\ OpenListeners(call[MainThread].f) = {})
    /\ [][main.pc = "starting" /\ main'.pc # "starting"
            => main'.pc = "startAll" /\ main'.i = main.i + 1]_vars
    /\ [][main.pc = "startAll" /\ main'.pc \notin {"startAll", "starting"}
            => main'.pc = "loop" /\ main.i = Len(main.forwarders) + 1]_vars

\* after SIGUSR1 the first forwarder of the list failed to start, the second
\* one is started, and Harald is back in its loop with a signal to take
C14_Witness ==
    /\ main.pc = "loop" /\ main.seen # <<>> /\ Last(main.seen) = "SIGUSR1"
    /\ Len(main.forwarders) = 2
    /\ listener[main.forwarders[1]] = NoListener
    /\ OpenListeners(main.forwarders[2]) # {}
    /\ signals # <<>>

\* C15: called with no rules, Harald never gets past its setup: it returns
\* an error, takes no signal from the channel, calls no Start() and binds no
\* listener.
C15_NoRulesIsAnError ==
    DOMAIN cfg.Rules = {} => NotReady

\* Harald has returned its error although listeners were to be enabled and a
\* signal is waiting
C15_Witness ==
    /\ DOMAIN cfg.Rules = {}
    /\ FailedAtStartup /\ main.err = "harald: no forwarders configured"
    /\ cfg.EnableListeners /\ signals # <<>>

\* C16: when the tls block of some rule does not build, Harald never gets
\* past its setup: it returns an error, takes no signal from the channel,
\* calls no Start() and binds no listener, whatever the other rules are.
C16_BadRuleStopsStartup ==
    (\E name \in DOMAIN cfg.Rules : TLSConfig(cfg.Rules[name].TLS).err # "none")
    => NotReady

\* Harald has returned its error after it had built the forwarder of a valid
\* rule, with listeners to be enabled and a signal waiting
C16_Witness ==
    /\ FailedAtStartup /\ main.err = "harald: new forwarder"
    /\ Len(main.forwarders) = 1
    /\ cfg.EnableListeners /\ signals # <<>>

\* C17 (as claimed): the timeout a forwarder dials with is its rule's
\* dial_timeout when that is not zero, the global dial_timeout otherwise.
C17_EffectiveDialTimeout ==
    \A name \in RuleNames :
        fwd[name].built
        => DialTimeoutOf(name) = IF cfg.Rules[name].DialTimeout # 0
                                   THEN cfg.Rules[name].DialTimeout
                                   ELSE cfg.DialTimeout

\* C18: with enable_listeners, Start() has been called once on every
\* forwarder when Harald takes its first signal from the channel; without it,
\* no Start() is called and no listener is bound as long as no SIGUSR1 has
\* been taken from the channel.
C18_EnableListenersStartsFirst ==
    /\ (cfg.EnableListeners /\ main.pc = "loop" /\ main.seen = <<>>)
       => main.calls = OneCallEach("Start")
    /\ (~cfg.EnableListeners /\ \A i \in DOMAIN main.seen : main.seen[i] # "SIGUSR1")
       => /\ NothingBound
          /\ \A i \in DOMAIN main.calls : main.calls[i][1] # "Start"

\* with enable_listeners both forwarders are started and no signal has been
\* taken yet
C18_Witness ==
    /\ cfg.EnableListeners /\ main.pc = "loop" /\ main.seen = <<>>
    /\ Len(main.forwarders) = 2
    /\ \A name \in RuleNames : OpenListeners(name) # {}
    /\ signals # <<>>

\* ------------------------------------------------- claims on the TLS side
\* the bytes the peers write, as they write them
PlainClient == {ClientByte(k) : k \in 1..MaxBytes}
PlainUpstream == {UpstreamByte(k) : k \in 1..MaxBytes}

\* C19: only a connection of a forwarder with a TLS configuration is wrapped,
\* and the TLS layer is on the accepted socket: what the handler reads from it
\* is the client's plaintext, what the upstream socket carries in either
\* direction is plaintext, and what the client decodes is the upstream's
\* plaintext.
C19_TLSOnInboundOnly ==
    \A c \in ConnIds :
        /\ conn[c].wrapped => (conn[c].f # 0 /\ tlsOn[conn[c].f])
        /\ \A i \in DOMAIN conn[c].buf["s2t"] : conn[c].buf["s2t"][i] \in PlainClient
        /\ \A i \in DOMAIN conn[c].toUp : conn[c].toUp[i] \in PlainClient
        /\ \A i \in DOMAIN conn[c].buf["t2s"] : conn[c].buf["t2s"][i] \in PlainUpstream
        /\ \A i \in DOMAIN conn[c].toCl : conn[c].toCl[i] \in PlainUpstream

\* a wrapped connection has carried bytes both ways after its handshake
C19_Witness ==
    \E c \in ConnIds :
        /\ conn[c].wrapped /\ conn[c].hs
        /\ conn[c].toUp # <<>> /\ conn[c].toCl # <<>>

\* ------------------------------------------- claims on the duration decoding
\* the duration texts of the grammar: one or more groups of digits and a
\* unit, with the value they denote in milliseconds, and the single "0"
Numerals == SeqsUpTo(Digits, MaxText) \ {<<>>}
Units == {<<"m", "s">>, <<"s">>, <<"m">>}
\* the texts of at most k groups that fit the bound
RECURSIVE Denoted(_)
Denoted(k) ==
    IF k = 0 THEN {[text |-> <<>>, value |-> 0]}
    ELSE LET shorter == Denoted(k - 1)
         IN  shorter \cup
             {[text |-> g.text \o num \o u,
               value |-> g.value + Number(num, 0) * UnitValue(u)] :
                 g \in {h \in shorter : Len(h.text) + 2 <= MaxText},
                 num \in {n \in Numerals : Len(n) < MaxText},
                 u \in Units}
WellFormed ==
    {[text |-> <<"0">>, value |-> 0]}
    \cup {g \in Denoted(MaxText) : g.text # <<>> /\ Len(g.text) <= MaxText}

\* C20: a quoted text of the duration grammar is decoded without error into
\* the duration it denotes; any other text, an empty one and an unquoted one
\* included, gives an error and leaves the value as it was.
C20_DurationDecoding ==
    dur.pc = "out"
    => IF dur.quoted /\ \E g \in WellFormed : g.text = dur.text
         THEN /\ ~dur.err
              /\ \E g \in WellFormed : g.text = dur.text /\ g.value = dur.d
         ELSE dur.err /\ dur.d = dur.was

\* "1mm" has been refused and has left a value decoded earlier in place
C20_Witness ==
    /\ dur.pc = "out" /\ dur.quoted /\ dur.text = <<"1", "m", "m">>
    /\ dur.err /\ dur.was # 0 /\ dur.d = dur.was

\* ------------------------------------------------- claims on the accept loop
\* C21 (as claimed): no goroutine ever calls a method on a nil listener
\* handle; the process does not crash.
C21_LoopNeverCrashes ==
    ~panicked

\* C22 (as claimed): an accept loop only ever accepts on the listener bound
\* by the Start() that launched it, never on one bound by a later Start().
C22_LoopKeepsItsListener ==
    \A id \in ListenerIds : loop[id].cur \in {NoListener, id}

\* C23 (as claimed): once the listener of an accept loop is closed, the loop
\* terminates through its listener-closed return.
C23_LoopEndsAfterClose ==
    \A id \in ListenerIds :
        (lstate[id] = "closed" /\ loop[id].pc \in {"read", "accept"})
        ~> (loop[id].pc = "exited")

\* C24: an Accept() that fails on an open listener only logs: the loop goes
\* back to its next round and nothing of the forwarder, of its listeners or of
\* the connections changes; a loop that has logged such an error and whose
\* listener is still open and in the handle is still running, and accepts the
\* next connection.
C24_AcceptErrorKeepsLoop ==
    /\ [][\A id \in ListenerIds :
            (/\ loop[id].pc = "accept" /\ loop'[id] # loop[id]
             /\ lstate[loop[id].cur] = "open" /\ conn' = conn)
            => /\ loop'[id] = [loop[id] EXCEPT !.pc = "read", !.logged = TRUE]
               /\ UNCHANGED <<listener, lstate, lowner, closeCalls, call, panicked>>]_vars
    /\ [](\A id \in ListenerIds :
            (loop[id].logged /\ lstate[id] = "open" /\ listener[loop[id].f] = id)
            => loop[id].pc \in {"read", "accept"})

\* a connection accepted after its loop had logged an accept error has been
\* dialled by its handler, on a forwarder that is still Started
C24_Witness ==
    \E c \in ConnIds :
        /\ conn[c].hpc \notin {"none", "dial"} /\ conn[c].afterErr
        /\ Dialled(c)
        /\ listener[conn[c].f] = conn[c].lid /\ lstate[conn[c].lid] = "open"

\* ------------------------------------------------- claims on bind failures
\* C25: a net.Listen that fails binds nothing; the Start() it belongs to
\* returns the error with the handle absent and launches no accept loop, and
\* after it has returned the forwarder has no handle and no open listener.
C25_BindFailureLeavesStopped ==
    /\ [][\A t \in Threads :
            (call[t].op = "Start" /\ call[t].pc = "listen" /\ Steps(t) /\ call'[t].err)
            => UNCHANGED <<listener, lstate, lowner, loop>>]_vars
    /\ [][\A t \in Threads :
            (call[t].op = "Start" /\ call[t].pc = "store" /\ call[t].err /\ Steps(t))
            => /\ call'[t].pc = "ret" /\ call'[t].err /\ call'[t].ret = "binderr"
               /\ listener'[call[t].f] = NoListener
               /\ UNCHANGED <<lstate, lowner, loop>>]_vars
    /\ [](\A t \in Threads :
            (Returned(t, "Start") /\ call[t].err)
            => /\ listener[call[t].f] = NoListener
               /\ OpenListeners(call[t].f) = {})

\* the first Start() of a forwarder has returned a bind error
C25_Witness ==
    /\ Returned("t1", "Start") /\ call["t1"].err /\ call["t1"].ret = "binderr"
    /\ listener[call["t1"].f] = NoListener
    /\ \A id \in ListenerIds : lstate[id] = "unbound" /\ loop[id].pc = "none"

\* C26: a Start() that failed leaves no handle behind, a Start() that finds
\* no handle tries to bind, and every SIGUSR1 calls Start() on every
\* forwarder: a forwarder that could not be started is tried again, and a
\* Start() that binds returns with the new listener open, in the handle, and
\* its accept loop running.
C26_BindFailureIsNotSticky ==
    /\ []((main.pc = "starting" /\ Returned(MainThread, "Start") /\ call[MainThread].err)
          => listener[call[MainThread].f] = NoListener)
    /\ [][(/\ call[MainThread].op = "Start" /\ call[MainThread].pc = "check"
           /\ listener[call[MainThread].f] = NoListener /\ Steps(MainThread))
          => call'[MainThread].pc = "listen"]_vars
    /\ []((main.pc = "loop" /\ main.seen # <<>> /\ Last(main.seen) = "SIGUSR1")
          => main.calls = OneCallEach("Start"))
    /\ []((main.pc = "starting" /\ Returned(MainThread, "Start")
           /\ call[MainThread].ret = "bound")
          => /\ listener[call[MainThread].f] = call[MainThread].l
             /\ lstate[call[MainThread].l] = "open"
             /\ loop[call[MainThread].l].f = call[MainThread].f
             /\ call[MainThread].l \in RunningLoops(call[MainThread].f))

\* without enable_listeners, the Start() the second SIGUSR1 called on the
\* only forwarder has bound the first listener ever bound, so the Start() of
\* the first SIGUSR1 had failed; the forwarder is Started and its loop runs
C26_Witness ==
    /\ ~cfg.EnableListeners /\ main.seen = <<"SIGUSR1", "SIGUSR1">>
    /\ Len(main.forwarders) = 1
    /\ main.pc = "starting" /\ Returned(MainThread, "Start")
    /\ call[MainThread].ret = "bound" /\ call[MainThread].l = 1
    /\ listener[main.forwarders[1]] = 1 /\ lstate[1] = "open"
    /\ RunningLoops(main.forwarders[1]) = {1}

\* C27 (as claimed): when Start() has returned to both callers and no Stop()
\* has closed anything, at most one listener of the forwarder is open, it is
\* the one in the handle, and as many accept loops run as listeners are open.
C27_ConcurrentStartBindsOnce ==
    \A f \in FwdIds :
        (/\ \A t \in Threads : Returned(t, "Start") /\ call[t].f = f
         /\ \A id \in ListenerIds : closeCalls[id] = 0)
        => /\ Cardinality(OpenListeners(f)) <= 1
           /\ OpenListeners(f) \subseteq {listener[f]}
           /\ Cardinality(RunningLoops(f)) = Cardinality(OpenListeners(f))

\* C28: the accept loop hands every accepted socket to a handler of its own and
\* is back at Accept() in the same step, whatever the other handlers are doing:
\* an accept step leaves the loop about to accept again, creates one handler
\* at its dial and leaves every other connection alone, and a loop blocked in
\* Accept() on an open listener can take a waiting client however many
\* handlers are still dialling or relaying.
C28_AcceptDoesNotWaitForHandlers ==
    /\ [][\A id \in ListenerIds :
            (loop[id].pc = "accept" /\ conn' # conn /\ loop' # loop)
                => /\ loop'[id].pc = "read"
                   /\ \E c \in ConnIds :
                         /\ conn[c].hpc = "none" /\ conn'[c].hpc = "dial"
                         /\ \A o \in ConnIds \ {c} : conn'[o] = conn[o]]_vars
    /\ [](\A id \in ListenerIds :
            (/\ ~panicked
             /\ loop[id].pc = "accept"
             /\ lstate[loop[id].cur] = "open"
             /\ FreeConns # {})
                => ENABLED LoopAcceptConn(id))

\* the second connection has been accepted and its bytes relayed to the
\* upstream while the handler of the first is still at its dial
C28_Witness ==
    /\ conn[1].hpc = "dial"
    /\ conn[2].hpc = "wait"
    /\ conn[2].cw # <<>>
    /\ conn[2].toUp = conn[2].cw

\* C29: when Close() on the captured listener reports an error, Stop() has
\* still returned with the handle absent and the listener released, and the
\* "already started" test of a Start() that finds the handle absent goes on to
\* bind.
C29_CloseErrorStillStops ==
    /\ [](\A t \in Threads :
            (Returned(t, "Stop") /\ call[t].ret = "closeerr")
                => /\ listener[call[t].f] = NoListener
                   /\ lstate[call[t].l] = "closed")
    /\ [][\A t \in Threads :
            (/\ call[t].op = "Start" /\ call[t].pc = "check"
             /\ listener[call[t].f] = NoListener
             /\ Steps(t))
                => call'[t].pc = "listen"]_vars

\* Stop() has returned after the first Close() of its listener reported an
\* error
C29_Witness ==
    \E t \in Threads :
        /\ Returned(t, "Stop") /\ call[t].ret = "closeerr"
        /\ call[t].l # NoListener
        /\ closeCalls[call[t].l] = 1
        /\ listener[call[t].f] = NoListener

\* C30: a handler dials the upstream exactly once. When that dial fails the
\* handler goes straight to closing the inbound socket and ends: it never
\* dials again, starts no copy, relays nothing, and there is no upstream
\* socket to use or to close.
C30_OneDialNoRetry ==
    \A c \in ConnIds :
        /\ conn[c].dials <= 1
        /\ conn[c].hpc \notin {"none", "dial"} => conn[c].dials = 1
        /\ (conn[c].dials = 1 /\ ~Dialled(c))
              => /\ conn[c].hpc \in {"closeS", "done"}
                 /\ \A d \in Dirs : conn[c].cp[d] = "none" /\ conn[c].buf[d] = <<>>
                 /\ conn[c].toUp = <<>> /\ conn[c].toCl = <<>>
                 /\ conn[c].tgtCloses = 0
                 /\ conn[c].inQ = ClientSends(c, conn[c].cw)
        /\ (HandlerEnded(c) /\ ~Dialled(c))
              => conn[c].src = "closed" /\ conn[c].srcCloses = 1

\* the client had sent a byte, the dial failed, and the handler has ended
\* without reading it
C30_Witness ==
    \E c \in ConnIds :
        /\ HandlerEnded(c) /\ ~Dialled(c)
        /\ conn[c].dials = 1 /\ conn[c].srcCloses = 1
        /\ conn[c].cw # <<>> /\ conn[c].toUp = <<>>

\* C31: once one copy of a connection has stopped, on end-of-stream or on an
\* error, the handler closes both sockets and the copy of the other direction
\* stops too.
C31_OtherCopyStops ==
    \A c \in ConnIds : \A d \in Dirs :
        CopyStopped(c, d)
            ~> (/\ conn[c].src = "closed" /\ conn[c].tgt = "closed"
                /\ HandlerEnded(c)
                /\ CopyStopped(c, Other(d)))

\* the client closed, the copy to the upstream ended on end-of-stream, the
\* handler closed both sockets, and the copy from the upstream, which had
\* nothing to read, ended on the closed socket
C31_Witness ==
    \E c \in ConnIds :
        /\ conn[c].cancelled = "eof" /\ conn[c].cp["s2t"] = "eof"
        /\ HandlerEnded(c)
        /\ conn[c].tgtCloses = 1 /\ conn[c].srcCloses = 1
        /\ conn[c].cp["t2s"] = "err"
        /\ conn[c].toCl = <<>>

\* C32: at every moment what the upstream has received is a prefix of what
\* the client wrote and what the client has received is a prefix of what the
\* upstream wrote; while the copy of a direction runs, what was delivered,
\* what the copy holds in its buffer and what waits on the socket are, in
\* this order, exactly what was written: nothing is reordered, duplicated,
\* altered or skipped.
C32_RelayKeepsTheBytes ==
    \A c \in ConnIds :
        /\ IsPrefix(conn[c].toUp, conn[c].cw)
        /\ IsPrefix(conn[c].toCl, conn[c].uw)
        /\ conn[c].cp["s2t"] = "run"
              => conn[c].toUp \o conn[c].buf["s2t"] \o ClientSees(c, conn[c].inQ) = conn[c].cw
        /\ conn[c].cp["t2s"] = "run"
              => conn[c].toCl \o conn[c].buf["t2s"] \o conn[c].upQ = conn[c].uw

\* on a forwarder without TLS two bytes of each peer have arrived at the
\* other one, in the order they were written
C32_Witness ==
    \E c \in ConnIds :
        /\ conn[c].wrapped = FALSE /\ conn[c].hpc # "none"
        /\ ~tlsOn[conn[c].f]
        /\ Len(conn[c].cw) >= 2 /\ conn[c].toUp = conn[c].cw
        /\ Len(conn[c].uw) >= 2 /\ conn[c].toCl = conn[c].uw
        /\ conn[c].cw[1] # conn[c].cw[2] /\ conn[c].uw[1] # conn[c].uw[2]

DialFails(c) == conn[c].hpc = "dial" /\ conn'[c].hpc = "closeS"
RelayFails(c) == \E d \in Dirs : conn[c].cp[d] = "run" /\ conn'[c].cp[d] = "err"

\* C33: the step in which the dial of a connection fails, or in which one of
\* its copies ends on a read or write error, changes nothing but that
\* connection: the listener handle, the listeners, the accept loops and the
\* calls of the forwarder are as before, the process goes on, and every other
\* connection keeps its sockets, its copies and its bytes.
C33_ConnectionErrorsStayLocal ==
    [][\A c \in ConnIds :
        (DialFails(c) \/ RelayFails(c))
            => /\ UNCHANGED <<listener, lstate, lowner, closeCalls, loop, call, panicked>>
               /\ \A o \in ConnIds \ {c} : conn'[o] = conn[o]]_vars

\* a copy of the first connection ended on an error and its handler has
\* returned; the forwarder is still Started with its loop running, and the
\* second connection, whose dial came after, has relayed the client's bytes
\* with both copies running
C33_Witness ==
    /\ conn[1].cancelled = "err" /\ HandlerEnded(1)
    /\ conn[2].hpc = "wait" /\ \A d \in Dirs : conn[2].cp[d] = "run"
    /\ conn[2].cw # <<>> /\ conn[2].toUp = conn[2].cw
    /\ \A f \in FwdIds : listener[f] # NoListener /\ RunningLoops(f) = {listener[f]}
    /\ ~panicked

\* a bundle that ends in bytes holding no PEM block, or that holds a block of
\* another type or a CERTIFICATE block that is no certificate
BadBundle(d) ==
    /\ d # <<>>
    /\ \/ Last(d) = "junk"
       \/ \E i \in DOMAIN d : d[i] \in {"key", "badcert"}

\* C34: a build from a non-empty client-CA bundle returns an error and no
\* configuration when the bundle holds a block that is not of type
\* CERTIFICATE, a CERTIFICATE block that does not parse, or remaining bytes
\* in which no PEM block is found, whatever certificates came before; any
\* other non-empty bundle is consumed to its end and, the key pair being
\* good, builds (text in front of a block is passed over by the PEM decoder).
C34_BadBundleFailsTheBuild ==
    /\ (tlsOut # Pending /\ ~tlsIn.isNil /\ BadBundle(tlsIn.ClientCAs))
          => (tlsOut.err # "none" /\ tlsOut.conf.isNil)
    /\ (/\ tlsOut # Pending /\ ~tlsIn.isNil /\ tlsIn.keyPairOK
        /\ tlsIn.ClientCAs # <<>> /\ ~BadBundle(tlsIn.ClientCAs))
          => Built

\* a bundle of a certificate followed by a key block has been rejected
C34_Witness ==
    /\ tlsIn.keyPairOK
    /\ tlsIn.ClientCAs = <<"certA", "key">>
    /\ tlsOut.err = "unexpected block" /\ tlsOut.conf.isNil

\* C35: a build from a tls block with a client-auth level above NoClientCert
\* and an empty client-CA bundle returns the error about the missing client
\* CAs and no configuration, whether or not certificate and key would parse:
\* the test comes before the key pair is looked at.
C35_AuthWithoutCAsFailsFirst ==
    (/\ tlsOut # Pending /\ ~tlsIn.isNil
     /\ tlsIn.ClientAuth > 0 /\ tlsIn.ClientCAs = <<>>)
        => /\ tlsOut.err = "client authentication but no client CAs"
           /\ tlsOut.conf.isNil

\* a tls block that requires and verifies client certificates, has no client
\* CAs and a key pair that does not parse has been rejected for the missing
\* client CAs
C35_Witness ==
    /\ ~tlsIn.isNil /\ ~tlsIn.keyPairOK
    /\ AuthName(tlsIn.ClientAuth) = "RequireAndVerifyClientCert"
    /\ tlsIn.ClientCAs = <<>>
    /\ tlsOut.err = "client authentication but no client CAs"

\* C36: for a rule without a tls block the builder returns no configuration
\* and no error, the forwarder is built, and no connection of that forwarder
\* is ever wrapped or takes a handshake step: the handler reads and writes
\* the inbound socket as it is, and what the upstream receives is what the
\* client put on the wire.
C36_NoTLSBlockMeansPlainTCP ==
    \A name \in DOMAIN cfg.Rules :
        cfg.Rules[name].TLS.isNil
            => /\ TLSConfig(cfg.Rules[name].TLS) = [conf |-> NoConf, err |-> "none"]
               /\ main.err = "none"
               /\ ~tlsOn[name]
               /\ \A c \in ConnIds :
                     conn[c].f = name
                        => /\ ~conn[c].wrapped /\ ~conn[c].hs
                           /\ IsPrefix(conn[c].toUp, conn[c].cw)
                           /\ IsPrefix(conn[c].toCl, conn[c].uw)
                           /\ conn[c].cp["s2t"] = "run"
                                => conn[c].toUp \o conn[c].buf["s2t"] \o conn[c].inQ = conn[c].cw

\* the forwarder of a rule without a tls block has relayed a byte in each
\* direction on an unwrapped inbound socket
C36_Witness ==
    \E c \in ConnIds :
        /\ conn[c].hpc = "wait"
        /\ cfg.Rules[conn[c].f].TLS.isNil /\ fwd[conn[c].f].built
        /\ ~conn[c].wrapped
        /\ conn[c].toUp # <<>> /\ conn[c].toCl # <<>>

\* C37: a round of Forwarders.Stop on SIGUSR2 calls Stop() once on every
\* forwarder, in the order of the list; when Harald is back in its signal
\* loop after it every handle is absent and no listener is open, whichever
\* forwarders were started before; the round ends in the signal loop and not
\* in a return, so later signals are taken.
C37_DeactivateAllStopsEach ==
    /\ []((main.pc = "loop" /\ main.seen # <<>> /\ Last(main.seen) = "SIGUSR2")
          => /\ main.calls = OneCallEach("Stop")
             /\ \A name \in RuleNames : listener[name] = NoListener
             /\ NothingOpen
             /\ call[MainThread] = IdleCall)
    /\ [][(main.pc = "stopAll" /\ main.after = "loop"
            /\ main'.pc \notin {"stopAll", "stopping"})
            => main'.pc = "loop" /\ main.i = Len(main.forwarders) + 1]_vars

\* the listeners were started at startup, stopped on SIGUSR2 and a SIGUSR1
\* after it has started the forwarder again, on a new listener
C37_Witness ==
    /\ cfg.EnableListeners
    /\ main.seen = <<"SIGUSR2", "SIGUSR1">> /\ main.pc = "loop"
    /\ \E id \in ListenerIds : lstate[id] = "closed"
    /\ \A i \in DOMAIN main.forwarders :
          /\ listener[main.forwarders[i]] # NoListener
          /\ lstate[listener[main.forwarders[i]]] = "open"

\* C38: taking a signal that has no case changes nothing but the record of
\* the signals taken: handles, listeners, accept loops and calls are as
\* before, no Start() or Stop() is called for it, and Harald is still in its
\* signal loop, where it takes the next signal.
C38_UnknownSignalIsIgnored ==
    /\ [][(/\ main.pc = "loop" /\ signals # <<>>
            /\ Head(signals) \notin {"SIGTERM", "SIGUSR1", "SIGUSR2"}
            /\ main' # main)
            => /\ main'.pc = "loop" /\ main'.calls = <<>>
               /\ main'.forwarders = main.forwarders /\ main'.err = main.err
               /\ UNCHANGED <<listener, lstate, lowner, closeCalls, loop, call,
                              panicked, fwd, tlsOn>>]_vars
    /\ []((main.seen # <<>> /\ Last(main.seen) = "SIGHUP")
          => (main.pc = "loop" /\ main.calls = <<>> /\ call[MainThread] = IdleCall))

\* a SIGHUP was taken with nothing started, and the SIGUSR1 after it has
\* started the listeners
C38_Witness ==
    /\ ~cfg.EnableListeners
    /\ main.seen = <<"SIGHUP", "SIGUSR1">>
    /\ main.pc = "loop"
    /\ \E name \in RuleNames : listener[name] # NoListener

\* C39: when the channel is closed and empty Harald returns success without
\* calling Start() or Stop(): the step changes no handle, listener or accept
\* loop, so a forwarder that was Started still has its listener open in its
\* handle when Harald has returned, and one that was Stopped is still
\* Stopped.
C39_ChannelCloseLeavesListeners ==
    /\ [][(/\ main.pc = "loop" /\ signals # <<>> /\ Head(signals) = ChannelClosed
            /\ main' # main)
            => /\ main'.pc = "ret" /\ main'.err = "none"
               /\ main'.calls = main.calls /\ main'.seen = main.seen
               /\ UNCHANGED <<listener, lstate, lowner, closeCalls, loop, call,
                              panicked, fwd, tlsOn, signals>>]_vars
    /\ []((/\ main.pc = "ret" /\ main.err = "none"
           /\ (main.seen = <<>> \/ Last(main.seen) # "SIGTERM"))
          => /\ signals = <<ChannelClosed>>
             /\ call[MainThread] = IdleCall
             /\ \A name \in RuleNames :
                    listener[name] # NoListener => lstate[listener[name]] = "open")

\* the listeners were started by a SIGUSR1, the channel was closed, and
\* Harald has returned success with the listener still open in its handle
C39_Witness ==
    /\ main.pc = "ret" /\ main.err = "none"
    /\ main.seen # <<>> /\ Last(main.seen) = "SIGUSR1"
    /\ signals = <<ChannelClosed>>
    /\ \E name \in RuleNames :
          listener[name] # NoListener /\ lstate[listener[name]] = "open"

====
